---- MODULE Spec2Model ----
(***************************************************************************)
(* Model of the Mercosur Trade MCP tool layer: a read-only relation store  *)
(* (SQLite tables) and the tool functions that query it.                   *)
(*                                                                         *)
(* Text values that the code inspects character by character (country      *)
(* codes, domains, LIKE patterns, sort keys) are sequences of one-character*)
(* strings, <<"A","R">>.  Display names and messages, which the code only  *)
(* concatenates, are TLA+ strings built with \o.  SQL NULL is the          *)
(* one-element sequence NULL, which no text value equals.  The arguments   *)
(* of a call are a record; an argument the caller left out (undefined in   *)
(* JavaScript) is a field the record does not have.                        *)
(***************************************************************************)
EXTENDS Naturals, Integers, Sequences, FiniteSets, TLC

VARIABLES db, today, req, outcome, queries, proc, http, build

vars == <<db, today, req, outcome, queries, proc, http, build>>

\* the stdio process, the HTTP deployment and the build script: the tool
\* calls leave all three alone
hosts == <<proc, http, build>>

\* ------------------------------------------------------------------------
\* Bounds of the model
\* ------------------------------------------------------------------------

\* largest number of rows in the table a store varies
MaxRows == 2

\* longest countries list passed to check_digital_trade_obligations
MaxCodes == 2

\* largest number of invocations of the HTTP handler in flight in one process
MaxInvocations == 2

\* the longest query string given to escapeFTS5Query on its own
MaxQueryLen == 3

\* largest number of calls of createServer() by a process that imports the
\* module
MaxServers == 2

\* ------------------------------------------------------------------------
\* Text
\* ------------------------------------------------------------------------

NULL == <<"NULL">>

Lower == <<"a","b","c","d","e","f","g","h","i","j","k","l","m",
           "n","o","p","q","r","s","t","u","v","w","x","y","z">>

Upper == <<"A","B","C","D","E","F","G","H","I","J","K","L","M",
           "N","O","P","Q","R","S","T","U","V","W","X","Y","Z">>

\* the characters of the model in ascending code-point order
Ascii == <<" ", "!", "\"", "#", "%", "(", ")", "*", ",", "-", ".", "0", "1", "2", "9", ":">>
           \o Upper \o <<"^", "_">> \o Lower

Ord(c) == CHOOSE i \in 1..Len(Ascii) : Ascii[i] = c

\* String.prototype.toUpperCase on one ASCII character
toUpperCaseChar(c) ==
  IF \E i \in 1..Len(Lower) : Lower[i] = c
  THEN Upper[CHOOSE i \in 1..Len(Lower) : Lower[i] = c]
  ELSE c

\* a plausible slip: the code is used as the caller spelled it
toUpperCase_AsGiven(s) == s

\* String.prototype.toUpperCase
toUpperCase(s) == [i \in 1..Len(s) |-> toUpperCaseChar(s[i])]

\* String.prototype.toLowerCase on one ASCII character
toLowerCaseChar(c) ==
  IF \E i \in 1..Len(Upper) : Upper[i] = c
  THEN Lower[CHOOSE i \in 1..Len(Upper) : Upper[i] = c]
  ELSE c

\* String.prototype.toLowerCase
toLowerCase(s) == [i \in 1..Len(s) |-> toLowerCaseChar(s[i])]

\* the JavaScript string whose characters are s
RECURSIVE Str(_)
Str(s) == IF s = <<>> THEN "" ELSE Head(s) \o Str(Tail(s))

\* binary (BINARY collation) comparison of two text values: s < t
RECURSIVE TextLess(_, _)
TextLess(s, t) ==
  IF t = <<>> THEN FALSE
  ELSE IF s = <<>> THEN TRUE
  ELSE IF Head(s) = Head(t) THEN TextLess(Tail(s), Tail(t))
  ELSE Ord(Head(s)) < Ord(Head(t))

\* SQLite ascending sort order of nullable text: NULL first, then binary
SqlLessEq(s, t) ==
  IF s = NULL THEN TRUE
  ELSE IF t = NULL THEN FALSE
  ELSE s = t \/ TextLess(s, t)

\* SQLite's  str LIKE pattern : % matches any run of characters, _ any one
\* character, every other character itself, ASCII letters without case
RECURSIVE Like(_, _)
Like(pattern, str) ==
  IF pattern = <<>> THEN str = <<>>
  ELSE IF Head(pattern) = "%"
       THEN Like(Tail(pattern), str) \/ (str # <<>> /\ Like(pattern, Tail(str)))
       ELSE /\ str # <<>>
            /\ \/ Head(pattern) = "_"
               \/ toUpperCaseChar(Head(pattern)) = toUpperCaseChar(Head(str))
            /\ Like(Tail(pattern), Tail(str))

\* the arguments object without properties
NoArgs == [f \in {} |-> <<>>]

\* an argument the enumeration of inputs leaves out
undefined == <<"undefined">>

\* the arguments object with property name set to value, unless left out
Arg(name, value) == IF value = undefined THEN NoArgs ELSE name :> value

\* input[name] !== undefined
Has(input, name) == name \in DOMAIN input

\* JavaScript truthiness of the optional string input[name]
Truthy(input, name) == Has(input, name) /\ input[name] # <<>>

\* ------------------------------------------------------------------------
\* Shared constants and helpers of the tools
\* ------------------------------------------------------------------------

COUNTRY_NAMES ==
  [c \in {"AR","BO","BR","CL","CO","EC","GY","MX","PE","PY","SR","UY","VE"} |->
     CASE c = "AR" -> "Argentina"
       [] c = "BO" -> "Bolivia"
       [] c = "BR" -> "Brazil"
       [] c = "CL" -> "Chile"
       [] c = "CO" -> "Colombia"
       [] c = "EC" -> "Ecuador"
       [] c = "GY" -> "Guyana"
       [] c = "MX" -> "Mexico"
       [] c = "PE" -> "Peru"
       [] c = "PY" -> "Paraguay"
       [] c = "SR" -> "Suriname"
       [] c = "UY" -> "Uruguay"
       [] c = "VE" -> "Venezuela"]

\* a plausible slip: no fallback to the code when the mapping misses
countryName_NoFallback(code) ==
  LET u == Str(toUpperCase(code))
  IN  IF u \in DOMAIN COUNTRY_NAMES THEN COUNTRY_NAMES[u] ELSE "undefined"

countryName(code) ==
  LET u == Str(toUpperCase(code))
  IN  IF u \in DOMAIN COUNTRY_NAMES THEN COUNTRY_NAMES[u] ELSE u

DISCLAIMER == "Reference tool only. Not legal or trade advice. Verify against official treaty texts and consult qualified trade counsel."

\* the calendar days the model's clock runs through
Dates == <<"2026-10-28", "2026-10-29">>

toIsoDate(day) == Dates[day]

buildMeta(day) ==
  [disclaimer |-> DISCLAIMER,
   data_age   |-> toIsoDate(day),
   server     |-> "mercosur-trade-mcp",
   version    |-> "0.1.0"]

\* ------------------------------------------------------------------------
\* The relation store
\* ------------------------------------------------------------------------

\* trade_blocs(id PRIMARY KEY, name, ...): the rows the build script inserts
\* for two of the blocs; associate_countries holds <<text>> or NULL
TradeBlocs ==
  { [id |-> <<"m","e","r","c","o","s","u","r">>, name |-> "Mercosur",
     full_name |-> "Mercado Comun del Sur (Southern Common Market)",
     founded_year |-> 1991,
     website |-> "https://www.mercosur.int",
     member_countries |-> "BR,AR,UY,PY",
     associate_countries |-> <<"CL,CO,EC,PE,GY,SR">>],
    [id |-> <<"p","a","c","i","f","i","c","_","a","l","l","i","a","n","c","e">>,
     name |-> "Pacific Alliance",
     full_name |-> "Alianza del Pacifico", founded_year |-> 2012,
     website |-> "https://alianzapacifico.net",
     member_countries |-> "CL,CO,MX,PE",
     associate_countries |-> NULL] }

\* agreements(id PRIMARY KEY, bloc_id, title, ...)
Agreements ==
  { [id |-> <<"a","1">>, bloc_id |-> <<"m","e","r","c","o","s","u","r">>,
     title |-> "Treaty of Asuncion",
     official_name |-> "Tratado de Asuncion", year |-> 1991,
     agreement_type |-> "treaty",
     status |-> "in_force", source_url |-> "https://www.mercosur.int",
     parties |-> <<"B","R",",","A","R">>, last_updated |-> <<"2026-01-15">>],
    [id |-> <<"a","2">>,
     bloc_id |-> <<"p","a","c","i","f","i","c","_","a","l","l","i","a","n","c","e">>,
     title |-> "Pacific Alliance Additional Protocol",
     official_name |-> "Protocolo Adicional", year |-> 2014,
     agreement_type |-> "protocol",
     status |-> "in_force", source_url |-> "https://alianzapacifico.net",
     parties |-> <<"C","L",",","M","X">>, last_updated |-> <<"2026-07-30">>] }

\* sources(id PRIMARY KEY, full_name, authority, ...): one source fetched 90
\* days before the first day of the model, one on its last day, one never
\* and one whose last_fetched text is not a date;
\* a date column holds <<text>> or NULL
Sources ==
  { [id |-> "mercosur-secretariat", full_name |-> "Mercosur Secretariat",
     authority |-> <<"M","S">>, jurisdiction |-> <<"M">>,
     source_url |-> "https://www.mercosur.int",
     last_fetched |-> <<"2026-07-30">>, last_updated |-> <<"2026-07-30">>,
     item_count |-> 2],
    [id |-> "pacific-alliance", full_name |-> "Pacific Alliance",
     authority |-> <<"P","A">>, jurisdiction |-> <<"P">>,
     source_url |-> "https://alianzapacifico.net",
     last_fetched |-> <<"2026-10-29">>, last_updated |-> <<"2026-01-15">>,
     item_count |-> 1],
    [id |-> "sice-oas", full_name |-> "SICE",
     authority |-> <<"S","I">>, jurisdiction |-> <<"O">>,
     source_url |-> "https://www.sice.oas.org",
     last_fetched |-> NULL, last_updated |-> NULL,
     item_count |-> 0],
    [id |-> "wto-rtais", full_name |-> "WTO RTA-IS",
     authority |-> <<"W","T">>, jurisdiction |-> <<"W">>,
     source_url |-> "https://rtais.wto.org",
     last_fetched |-> <<"unknown">>, last_updated |-> NULL,
     item_count |-> 0] }

\* candidate rows of data_transfer_rules; row 6 repeats the ordered pair of
\* row 1 and row 5 stores its codes in lower case
DtrPool ==
  { [id |-> 1, source_country |-> <<"A","R">>, dest_country |-> <<"E","U">>,
     framework |-> "PDPA + GDPR", adequacy_status |-> "adequacy",
     transfer_mechanisms |-> "EU adequacy decision", restrictions |-> "none",
     legal_basis |-> "Ley 25.326 Art. 12"],
    [id |-> 2, source_country |-> <<"E","U">>, dest_country |-> <<"A","R">>,
     framework |-> "GDPR + PDPA", adequacy_status |-> "adequacy",
     transfer_mechanisms |-> "Art. 45", restrictions |-> "none",
     legal_basis |-> "GDPR Art. 45"],
    [id |-> 3, source_country |-> <<"A","R">>, dest_country |-> <<"A","R">>,
     framework |-> "PDPA", adequacy_status |-> "domestic",
     transfer_mechanisms |-> "n/a", restrictions |-> "none",
     legal_basis |-> "Ley 25.326"],
    [id |-> 4, source_country |-> <<"B","R">>, dest_country |-> <<"A","R">>,
     framework |-> "LGPD + PDPA", adequacy_status |-> "mutual_adequacy",
     transfer_mechanisms |-> "SCC", restrictions |-> "LGPD Article 33",
     legal_basis |-> "LGPD Art. 33-36"],
    [id |-> 5, source_country |-> <<"a","r">>, dest_country |-> <<"e","u">>,
     framework |-> "lower case", adequacy_status |-> "pending",
     transfer_mechanisms |-> "SCC", restrictions |-> "none",
     legal_basis |-> "n/a"],
    [id |-> 6, source_country |-> <<"A","R">>, dest_country |-> <<"E","U">>,
     framework |-> "duplicate", adequacy_status |-> "pending",
     transfer_mechanisms |-> "SCC", restrictions |-> "none",
     legal_basis |-> "n/a"] }

\* UNIQUE(source_country, dest_country) and the primary key
DtrConstraints(t) ==
  \A r, s \in t :
    (r.id = s.id \/ (r.source_country = s.source_country
                     /\ r.dest_country = s.dest_country)) => r = s

DtrTables == { t \in SUBSET DtrPool : Cardinality(t) <= MaxRows /\ DtrConstraints(t) }

\* candidate rows of mutual_recognition; rows 1 and 3 hold the same
\* unordered pair and domain in opposite orders, row 4 refers to an agreement
\* that is not stored (the foreign key rejects it), row 5 differs from row 1
\* in the case of its domain
MrPool ==
  { [id |-> 1, country_a |-> <<"B","R">>, country_b |-> <<"A","R">>,
     domain |-> <<"c","u">>, agreement_id |-> <<"a","1">>,
     description |-> "Mutual recognition of customs procedures",
     status |-> "active"],
    [id |-> 2, country_a |-> <<"A","R">>, country_b |-> <<"B","R">>,
     domain |-> <<"s","t">>, agreement_id |-> <<"a","2">>,
     description |-> "Mutual recognition of product standards",
     status |-> "active"],
    [id |-> 3, country_a |-> <<"A","R">>, country_b |-> <<"B","R">>,
     domain |-> <<"c","u">>, agreement_id |-> NULL,
     description |-> "Customs procedures, reverse order",
     status |-> "active"],
    [id |-> 4, country_a |-> <<"B","R">>, country_b |-> <<"U","Y">>,
     domain |-> <<"c","u">>, agreement_id |-> <<"a","9">>,
     description |-> "Customs procedures BR-UY",
     status |-> "active"],
    [id |-> 5, country_a |-> <<"B","R">>, country_b |-> <<"A","R">>,
     domain |-> <<"C","u">>, agreement_id |-> <<"a","1">>,
     description |-> "Customs procedures, capitalised domain",
     status |-> "negotiating"] }

\* the primary key, and agreement_id REFERENCES agreements(id): the connection
\* that writes the store enforces foreign keys, and a NULL refers to nothing
MrConstraints(t) ==
  /\ \A r, s \in t : r.id = s.id => r = s
  /\ \A r \in t :
       r.agreement_id = NULL \/ \E a \in Agreements : a.id = r.agreement_id

MrTables == { t \in SUBSET MrPool : Cardinality(t) <= MaxRows /\ MrConstraints(t) }

\* candidate rows of digital_trade_obligations; row 3 stores its code in
\* lower case, row 4 holds a token that contains the code AR
DtoPool ==
  { [id |-> 1, agreement_id |-> <<"a","1">>,
     countries |-> <<"B","R",",","A","R">>,
     obligation |-> "Promote cross-border electronic commerce",
     chapter |-> <<"D">>, description |-> "Digital Agenda",
     legal_basis |-> "CMC Decision 13/15, Art. 3"],
    [id |-> 2, agreement_id |-> <<"a","2">>,
     countries |-> <<"C","L",",","M","X">>,
     obligation |-> "No customs duties on electronic transmissions",
     chapter |-> <<"E">>, description |-> "E-Commerce",
     legal_basis |-> "Additional Protocol, Art. 13.4"],
    [id |-> 3, agreement_id |-> NULL,
     countries |-> <<"a","r">>,
     obligation |-> "Recognize electronic signatures",
     chapter |-> NULL, description |-> "lower-case party list",
     legal_basis |-> "n/a"],
    [id |-> 4, agreement_id |-> <<"a","1">>,
     countries |-> <<"X","A","R">>,
     obligation |-> "Cybersecurity cooperation",
     chapter |-> <<"C">>, description |-> "longer token",
     legal_basis |-> "n/a"] }

\* the primary key, and agreement_id REFERENCES agreements(id)
DtoConstraints(t) ==
  /\ \A r, s \in t : r.id = s.id => r = s
  /\ \A r \in t :
       r.agreement_id = NULL \/ \E a \in Agreements : a.id = r.agreement_id

DtoTables == { t \in SUBSET DtoPool : Cardinality(t) <= MaxRows /\ DtoConstraints(t) }

\* candidate rows of provisions; row 3 refers to an agreement that is not
\* stored (the foreign key rejects it), row 4 repeats the key of row 1, row 5 belongs to the second
\* agreement and holds the word trade twice
ProvisionPool ==
  { [id |-> 1, agreement_id |-> <<"a","1">>, article_ref |-> <<"1">>,
     title |-> <<"A","i","m">>,
     content |-> <<"F","r","e","e"," ","t","r","a","d","e"," ","l","a","w">>,
     chapter |-> <<"I">>, topic |-> <<"c","u">>],
    [id |-> 2, agreement_id |-> <<"a","1">>, article_ref |-> <<"2">>,
     title |-> <<"T","a","x">>,
     content |-> <<"T","r","a","d","e",".">>,
     chapter |-> <<"I">>, topic |-> <<"s","t">>],
    [id |-> 3, agreement_id |-> <<"a","9">>, article_ref |-> <<"1">>,
     title |-> <<"O","r","p","h","a","n">>,
     content |-> <<"t","r","a","d","e">>,
     chapter |-> <<"I">>, topic |-> <<"c","u">>],
    [id |-> 4, agreement_id |-> <<"a","1">>, article_ref |-> <<"1">>,
     title |-> <<"D","u","p","e">>,
     content |-> <<"t","a","x"," ","l","a","w">>,
     chapter |-> <<"I">>, topic |-> <<"c","u">>],
    [id |-> 5, agreement_id |-> <<"a","2">>, article_ref |-> <<"1">>,
     title |-> <<"T","r","a","d","e">>,
     content |-> <<"t","r","a","d","e"," ","p","a","c","t">>,
     chapter |-> NULL, topic |-> NULL] }

\* UNIQUE(agreement_id, article_ref), the primary key, and agreement_id NOT
\* NULL REFERENCES agreements(id)
ProvisionConstraints(t) ==
  /\ \A r, s \in t :
       (r.id = s.id \/ (r.agreement_id = s.agreement_id
                        /\ r.article_ref = s.article_ref)) => r = s
  /\ \A r \in t : \E a \in Agreements : a.id = r.agreement_id

ProvisionTables ==
  { t \in SUBSET ProvisionPool : Cardinality(t) <= MaxRows /\ ProvisionConstraints(t) }

\* the store the other stores vary one table of
BaseStore ==
  [agreements                |-> Agreements,
   data_transfer_rules       |-> { r \in DtrPool : r.id = 1 },
   mutual_recognition        |-> { r \in MrPool : r.id \in {1, 2} },
   digital_trade_obligations |-> { r \in DtoPool : r.id \in {1, 2} },
   provisions                |-> { r \in ProvisionPool : r.id = 1 },
   trade_blocs               |-> TradeBlocs,
   sources                   |-> Sources]

\* the stores of the model: each differs from BaseStore in one table, which
\* ranges over every table of at most MaxRows candidate rows that the schema
\* admits
Stores ==
  { [BaseStore EXCEPT !.data_transfer_rules = t] : t \in DtrTables }
    \cup { [BaseStore EXCEPT !.mutual_recognition = t] : t \in MrTables }
    \cup { [BaseStore EXCEPT !.digital_trade_obligations = t] : t \in DtoTables }
    \cup { [BaseStore EXCEPT !.provisions = t] : t \in ProvisionTables }

\* the sequences that hold every element of S once, in an order that the
\* relation lessEq (a set of pairs) allows
Orderings(S, lessEq) ==
  { f \in [1..Cardinality(S) -> S] :
      /\ \A i, j \in 1..Cardinality(S) : f[i] = f[j] => i = j
      /\ \A i, j \in 1..Cardinality(S) : i < j => <<f[i], f[j]>> \in lessEq }

\* a.title of the agreement with the given id, NULL when LEFT JOIN finds none
AgreementTitle(store, id) ==
  IF \E a \in store.agreements : a.id = id
  THEN << (CHOOSE a \in store.agreements : a.id = id).title >>
  ELSE NULL

\* ------------------------------------------------------------------------
\* get_data_transfer_rules
\* ------------------------------------------------------------------------

\* a plausible slip: the WHERE clause tests the first column only
SelectTransferRule_IgnoreDest(store, s, d) ==
  LET m == { r \in store.data_transfer_rules : r.source_country = s }
  IN  IF m = {} THEN <<>>
      ELSE << CHOOSE r \in m : \A o \in m : r.id <= o.id >>

\* SELECT ... FROM data_transfer_rules WHERE source_country = ? AND
\* dest_country = ?  with .get(): the first matching row in a sequence of
\* length one, or the empty sequence where .get() gives undefined
SelectTransferRule(store, s, d) ==
  LET m == { r \in store.data_transfer_rules :
               r.source_country = s /\ r.dest_country = d }
  IN  IF m = {} THEN <<>>
      ELSE << CHOOSE r \in m : \A o \in m : r.id <= o.id >>

\* a plausible slip: the requested direction is looked up with swapped codes
ForwardLookup_Swapped(store, src, dst) == SelectTransferRule(store, dst, src)

\* the first query: .get(src, dst)
ForwardLookup(store, src, dst) == SelectTransferRule(store, src, dst)

\* a plausible slip: the second query repeats the first, codes not swapped
ReverseLookup_NotSwapped(store, src, dst) == SelectTransferRule(store, src, dst)

\* the second query: .get(dst, src)
ReverseLookup(store, src, dst) == SelectTransferRule(store, dst, src)

getDataTransferRules(store, day, input) ==
  IF ~Has(input, "source_country") \/ ~Has(input, "dest_country")
  THEN [outcome |-> [kind |-> "throw", error |-> "TypeError",
                    message |-> "Cannot read properties of undefined (reading 'toUpperCase')"],
        queries |-> <<>>]
  ELSE
  LET src      == toUpperCase(input.source_country)
      dst      == toUpperCase(input.dest_country)
      forward  == ForwardLookup(store, src, dst)
      backward == ReverseLookup(store, src, dst)
      row      == IF forward # <<>> THEN forward ELSE backward
      reversed == forward = <<>> /\ backward # <<>>
      issued   == IF forward # <<>>
                  THEN <<"data_transfer_rules">>
                  ELSE <<"data_transfer_rules", "data_transfer_rules">>
  IN  IF row = <<>>
      THEN [outcome |->
              [kind |-> "return",
               value |->
                 [found |-> FALSE,
                  source_country |-> src,
                  source_country_name |-> countryName(src),
                  dest_country |-> dst,
                  dest_country_name |-> countryName(dst),
                  message |-> "No data transfer rules found between "
                                \o countryName(src) \o " and "
                                \o countryName(dst) \o ".",
                  _metadata |-> buildMeta(day)]],
            queries |-> issued]
      ELSE [outcome |->
              [kind |-> "return",
               value |->
                 [found |-> TRUE,
                  source_country |-> src,
                  source_country_name |-> countryName(src),
                  dest_country |-> dst,
                  dest_country_name |-> countryName(dst),
                  reversed_lookup |-> reversed,
                  rules |-> row[1],
                  _metadata |-> buildMeta(day)]],
            queries |-> issued]

\* ------------------------------------------------------------------------
\* get_mutual_recognition
\* ------------------------------------------------------------------------

\* a plausible slip: only the order (a, b) is searched
SelectMutualRecognition_ForwardOnly(store, a, b, input) ==
  { [id |-> r.id, country_a |-> r.country_a, country_b |-> r.country_b,
     domain |-> r.domain, agreement_id |-> r.agreement_id,
     description |-> r.description, status |-> r.status,
     agreement_title |-> AgreementTitle(store, r.agreement_id)] :
    r \in { m \in store.mutual_recognition :
              /\ m.country_a = a /\ m.country_b = b
              /\ Truthy(input, "domain") => m.domain = input.domain } }

\* a plausible slip: the second order is a fallback, searched only when the
\* first order has no row
SelectMutualRecognition_Fallback(store, a, b, input) ==
  IF SelectMutualRecognition_ForwardOnly(store, a, b, input) # {}
  THEN SelectMutualRecognition_ForwardOnly(store, a, b, input)
  ELSE SelectMutualRecognition_ForwardOnly(store, b, a, input)

\* the result set of
\*   SELECT mr.*, a.title AS agreement_title FROM mutual_recognition mr
\*   LEFT JOIN agreements a ON a.id = mr.agreement_id
\*   WHERE ((mr.country_a = a AND mr.country_b = b)
\*          OR (mr.country_a = b AND mr.country_b = a)) [AND mr.domain = ?]
SelectMutualRecognition(store, a, b, input) ==
  { [id |-> r.id, country_a |-> r.country_a, country_b |-> r.country_b,
     domain |-> r.domain, agreement_id |-> r.agreement_id,
     description |-> r.description, status |-> r.status,
     agreement_title |-> AgreementTitle(store, r.agreement_id)] :
    r \in { m \in store.mutual_recognition :
              /\ \/ (m.country_a = a /\ m.country_b = b)
                 \/ (m.country_a = b /\ m.country_b = a)
              /\ Truthy(input, "domain") => m.domain = input.domain } }

\* a plausible slip: the statement has no ORDER BY
ByDomain_Unordered(S) == S \X S

\* ORDER BY mr.domain, as a relation on the rows of S
ByDomain(S) == { p \in S \X S : SqlLessEq(p[1].domain, p[2].domain) }

\* what .all() may return for the input: the result set in an order that
\* ORDER BY mr.domain allows (rows of equal domain come in either order)
MutualRecognitionRows(store, input) ==
  IF ~Has(input, "country_a") \/ ~Has(input, "country_b")
  THEN { <<>> }
  ELSE LET S == SelectMutualRecognition(store, toUpperCase(input.country_a),
                                        toUpperCase(input.country_b), input)
       IN  Orderings(S, ByDomain(S))

\* input.domain ?? null
DomainOrNull(input) == IF Has(input, "domain") THEN input.domain ELSE NULL

getMutualRecognition(store, day, input, rows) ==
  IF ~Has(input, "country_a") \/ ~Has(input, "country_b")
  THEN [outcome |-> [kind |-> "throw", error |-> "TypeError",
                    message |-> "Cannot read properties of undefined (reading 'toUpperCase')"],
        queries |-> <<>>]
  ELSE
  LET a         == toUpperCase(input.country_a)
      b         == toUpperCase(input.country_b)
      domainMsg == IF Truthy(input, "domain")
                   THEN " in domain \"" \o Str(input.domain) \o "\""
                   ELSE ""
  IN  IF Len(rows) = 0
      THEN [outcome |->
              [kind |-> "return",
               value |->
                 [found |-> FALSE,
                  country_a |-> a,
                  country_a_name |-> countryName(a),
                  country_b |-> b,
                  country_b_name |-> countryName(b),
                  domain |-> DomainOrNull(input),
                  message |-> "No mutual recognition agreements found between "
                                \o countryName(a) \o " and " \o countryName(b)
                                \o domainMsg \o ".",
                  _meta |-> buildMeta(day)]],
            queries |-> <<"mutual_recognition">>]
      ELSE [outcome |->
              [kind |-> "return",
               value |->
                 [found |-> TRUE,
                  country_a |-> a,
                  country_a_name |-> countryName(a),
                  country_b |-> b,
                  country_b_name |-> countryName(b),
                  domain |-> DomainOrNull(input),
                  count |-> Len(rows),
                  agreements |-> rows,
                  _meta |-> buildMeta(day)]],
            queries |-> <<"mutual_recognition">>]

\* ------------------------------------------------------------------------
\* check_digital_trade_obligations
\* ------------------------------------------------------------------------

\* `%${code}%`
LikeParam(code) == <<"%">> \o code \o <<"%">>

\* a plausible slip: the LIKE conditions are joined with AND
SelectObligations_AllCodes(store, codes) ==
  { [id |-> r.id, agreement_id |-> r.agreement_id, countries |-> r.countries,
     obligation |-> r.obligation, chapter |-> r.chapter,
     description |-> r.description, legal_basis |-> r.legal_basis,
     agreement_title |-> AgreementTitle(store, r.agreement_id)] :
    r \in { o \in store.digital_trade_obligations :
              \A k \in 1..Len(codes) : Like(<<"%">> \o codes[k] \o <<"%">>, o.countries) } }

\* the result set of
\*   SELECT dto.*, a.title AS agreement_title FROM digital_trade_obligations dto
\*   LEFT JOIN agreements a ON a.id = dto.agreement_id
\*   WHERE dto.countries LIKE ? OR dto.countries LIKE ? ...
SelectObligations(store, codes) ==
  { [id |-> r.id, agreement_id |-> r.agreement_id, countries |-> r.countries,
     obligation |-> r.obligation, chapter |-> r.chapter,
     description |-> r.description, legal_basis |-> r.legal_basis,
     agreement_title |-> AgreementTitle(store, r.agreement_id)] :
    r \in { o \in store.digital_trade_obligations :
              \E k \in 1..Len(codes) : Like(LikeParam(codes[k]), o.countries) } }

\* ORDER BY dto.agreement_id, dto.chapter, as a relation on the rows of S
ByAgreementChapter(S) ==
  { p \in S \X S :
      IF p[1].agreement_id = p[2].agreement_id
      THEN SqlLessEq(p[1].chapter, p[2].chapter)
      ELSE SqlLessEq(p[1].agreement_id, p[2].agreement_id) }

\* codes.map(countryName).join(', ')
RECURSIVE JoinNames(_)
JoinNames(codes) ==
  IF codes = <<>> THEN ""
  ELSE IF Len(codes) = 1 THEN countryName(codes[1])
  ELSE countryName(codes[1]) \o ", " \o JoinNames(Tail(codes))

\* a plausible slip: only a missing list is rejected, not an empty one
EmptyCountries_MissingOnly(input) == ~Has(input, "countries")

\* !input.countries || input.countries.length === 0
EmptyCountries(input) == ~Has(input, "countries") \/ Len(input.countries) = 0

\* what .all() may return for the input
ObligationRows(store, input) ==
  IF EmptyCountries(input)
  THEN { <<>> }
  ELSE LET S == SelectObligations(store,
                  [k \in 1..Len(input.countries) |-> toUpperCase(input.countries[k])])
       IN  Orderings(S, ByAgreementChapter(S))

\* a plausible slip: an empty result is answered with an empty payload
ObligationsNotFound_EmptyPayload(named, codes, day) ==
  [found |-> FALSE,
   countries |-> named,
   count |-> 0,
   obligations |-> <<>>,
   message |-> "No digital trade obligations found for " \o JoinNames(codes) \o ".",
   _meta |-> buildMeta(day)]

\* the response for an empty result set
ObligationsNotFound(named, codes, day) ==
  [found |-> FALSE,
   countries |-> named,
   message |-> "No digital trade obligations found for " \o JoinNames(codes) \o ".",
   _meta |-> buildMeta(day)]

checkDigitalTradeObligations(store, day, input, obligations) ==
  IF EmptyCountries(input)
  THEN [outcome |->
          [kind |-> "return",
           value |->
             [found |-> FALSE,
              message |-> "At least one country code is required.",
              _meta |-> buildMeta(day)]],
        queries |-> <<>>]
  ELSE
  LET codes == [k \in 1..Len(input.countries) |-> toUpperCase(input.countries[k])]
      named == [k \in 1..Len(codes) |-> [code |-> codes[k], name |-> countryName(codes[k])]]
  IN  IF Len(obligations) = 0
      THEN [outcome |->
              [kind |-> "return",
               value |-> ObligationsNotFound(named, codes, day)],
            queries |-> <<"digital_trade_obligations">>]
      ELSE [outcome |->
              [kind |-> "return",
               value |->
                 [found |-> TRUE,
                  countries |-> named,
                  count |-> Len(obligations),
                  obligations |-> obligations,
                  _meta |-> buildMeta(day)]],
            queries |-> <<"digital_trade_obligations">>]

\* ------------------------------------------------------------------------
\* get_provision
\* ------------------------------------------------------------------------

\* a plausible slip: the WHERE clause tests the agreement only
SelectProvision_IgnoreArticle(store, agreement_id, article) ==
  LET m == { pa \in store.provisions \X store.agreements :
               /\ pa[2].id = pa[1].agreement_id
               /\ pa[1].agreement_id = agreement_id }
  IN  IF m = {} THEN <<>>
      ELSE LET pa == CHOOSE x \in m : \A o \in m : x[1].id <= o[1].id
           IN  << [id |-> pa[1].id, agreement_id |-> pa[1].agreement_id,
                   article_ref |-> pa[1].article_ref, title |-> pa[1].title,
                   content |-> pa[1].content, chapter |-> pa[1].chapter,
                   topic |-> pa[1].topic, agreement_title |-> pa[2].title,
                   official_name |-> pa[2].official_name, year |-> pa[2].year,
                   agreement_status |-> pa[2].status,
                   source_url |-> pa[2].source_url, parties |-> pa[2].parties] >>

\* SELECT p.*, a.title AS agreement_title, a.official_name, a.year,
\*        a.status AS agreement_status, a.source_url, a.parties
\* FROM provisions p JOIN agreements a ON a.id = p.agreement_id
\* WHERE p.agreement_id = ? AND p.article_ref = ?   with .get()
SelectProvision(store, agreement_id, article) ==
  LET m == { pa \in store.provisions \X store.agreements :
               /\ pa[2].id = pa[1].agreement_id
               /\ pa[1].agreement_id = agreement_id
               /\ pa[1].article_ref = article }
  IN  IF m = {} THEN <<>>
      ELSE LET pa == CHOOSE x \in m : \A o \in m : x[1].id <= o[1].id
           IN  << [id |-> pa[1].id, agreement_id |-> pa[1].agreement_id,
                   article_ref |-> pa[1].article_ref, title |-> pa[1].title,
                   content |-> pa[1].content, chapter |-> pa[1].chapter,
                   topic |-> pa[1].topic, agreement_title |-> pa[2].title,
                   official_name |-> pa[2].official_name, year |-> pa[2].year,
                   agreement_status |-> pa[2].status,
                   source_url |-> pa[2].source_url, parties |-> pa[2].parties] >>

getProvision(store, day, input) ==
  LET row == SelectProvision(store, input.agreement_id, input.article)
  IN  IF row = <<>>
      THEN [outcome |->
              [kind |-> "return",
               value |->
                 [found |-> FALSE,
                  agreement_id |-> input.agreement_id,
                  article |-> input.article,
                  message |-> "No provision found for article \""
                                \o Str(input.article) \o "\" in agreement \""
                                \o Str(input.agreement_id) \o "\".",
                  _metadata |-> buildMeta(day)]],
            queries |-> <<"provisions">>]
      ELSE [outcome |->
              [kind |-> "return",
               value |->
                 [found |-> TRUE,
                  provision |-> row[1],
                  _metadata |-> buildMeta(day)]],
            queries |-> <<"provisions">>]

\* ------------------------------------------------------------------------
\* search_agreements
\* ------------------------------------------------------------------------

DEFAULT_LIMIT == 10

MAX_LIMIT == 50

\* A number argument is [kind |-> "number", tenths |-> n] for the finite
\* number n/10, and [kind |-> "NaN"], [kind |-> "Infinity"] or
\* [kind |-> "-Infinity"] otherwise.
\* input.limit, with a marker for undefined
LimitOf(input) == IF Has(input, "limit") THEN input.limit ELSE [kind |-> "undefined"]

\* Math.trunc of the number tenths/10
Trunc(tenths) == IF tenths >= 0 THEN tenths \div 10 ELSE -((-tenths) \div 10)

\* a plausible slip: the value is capped but not raised to 1
clampLimit_NoFloor(limit) ==
  LET value == IF limit.kind = "number" THEN Trunc(limit.tenths) ELSE DEFAULT_LIMIT
  IN  IF value > MAX_LIMIT THEN MAX_LIMIT ELSE value

\* Math.min(Math.max(Math.trunc(value), 1), MAX_LIMIT), value being the limit
\* when Number.isFinite(limit) and DEFAULT_LIMIT otherwise
clampLimit(limit) ==
  LET value   == IF limit.kind = "number" THEN Trunc(limit.tenths) ELSE DEFAULT_LIMIT
      floored == IF value < 1 THEN 1 ELSE value
  IN  IF floored > MAX_LIMIT THEN MAX_LIMIT ELSE floored

\* query.replace(/[()^*:]/g, (char) => `"${char}"`)
RECURSIVE escapeFTS5Query(_)
escapeFTS5Query(query) ==
  IF query = <<>> THEN <<>>
  ELSE IF Head(query) \in {"(", ")", "^", "*", ":"}
       THEN <<"\"", Head(query), "\"">> \o escapeFTS5Query(Tail(query))
       ELSE <<Head(query)>> \o escapeFTS5Query(Tail(query))

IsDigit(c) == c \in {"0", "1", "2", "3", "4", "5", "6", "7", "8", "9"}

IsLetter(c) == \E i \in 1..Len(Upper) : Upper[i] = c \/ Lower[i] = c

\* the characters of an FTS5 bareword: the letters, the digits, the
\* underscore and the substitute character U+001A (the characters outside
\* ASCII, which are bareword characters too, are outside the model's texts)
IsBareword(c) == IsLetter(c) \/ IsDigit(c) \/ c = "_" \/ c = ""

\* the punctuation of the FTS5 query syntax
Fts5Punct == {"(", ")", "{", "}", ":", ",", "+", "*", "-", "^"}

\* length of the bareword that begins z
RECURSIVE BarewordRun(_)
BarewordRun(z) ==
  IF z = <<>> \/ ~IsBareword(Head(z)) THEN 0 ELSE 1 + BarewordRun(Tail(z))

\* the quoted string whose opening quote precedes z: "" inside the string is
\* one quote character, a single quote ends it, the end of input before that
\* leaves it unterminated
RECURSIVE Fts5String(_)
Fts5String(z) ==
  IF z = <<>> THEN [ok |-> FALSE, text |-> <<>>, rest |-> <<>>]
  ELSE IF Head(z) = "\""
       THEN IF Len(z) >= 2 /\ z[2] = "\""
            THEN LET r == Fts5String(Tail(Tail(z)))
                 IN  [r EXCEPT !.text = <<"\"">> \o @]
            ELSE [ok |-> TRUE, text |-> <<>>, rest |-> Tail(z)]
       ELSE LET r == Fts5String(Tail(z))
            IN  [r EXCEPT !.text = <<Head(z)>> \o @]

\* the tokens of an FTS5 query: blank, tab, line feed and carriage return
\* are skipped; a character outside the syntax or an unterminated string
\* ends the sequence with an ERROR token.  AND, OR and NOT are keywords;
\* NEAR is a bareword like any other, which the grammar reads as the
\* operator only where "(" follows it.
RECURSIVE Fts5Lex(_)
Fts5Lex(z) ==
  IF z = <<>> THEN <<>>
  ELSE IF Head(z) \in {" ", "\t", "\n", "\r"} THEN Fts5Lex(Tail(z))
  ELSE IF Head(z) = "\""
       THEN LET r == Fts5String(Tail(z))
            IN  IF r.ok
                THEN <<[type |-> "STRING", text |-> r.text]>> \o Fts5Lex(r.rest)
                ELSE <<[type |-> "ERROR", text |-> <<>>]>>
  ELSE IF Head(z) \in Fts5Punct
       THEN <<[type |-> "PUNCT", text |-> <<Head(z)>>]>> \o Fts5Lex(Tail(z))
  ELSE IF IsBareword(Head(z))
       THEN LET w == SubSeq(z, 1, BarewordRun(z))
            IN  <<[type |-> IF Str(w) \in {"AND", "OR", "NOT"}
                            THEN "KEYWORD" ELSE "STRING",
                   text |-> w]>>
                  \o Fts5Lex(SubSeq(z, Len(w) + 1, Len(z)))
  ELSE <<[type |-> "ERROR", text |-> <<Head(z)>>]>>

\* a character of a token of the unicode61 tokenizer
IsAlnum(c) == IsLetter(c) \/ IsDigit(c)

RECURSIVE AlnumRun(_)
AlnumRun(text) ==
  IF text = <<>> \/ ~IsAlnum(Head(text)) THEN 0 ELSE 1 + AlnumRun(Tail(text))

\* the unicode61 tokenizer: the maximal runs of letters and digits, in lower
\* case
RECURSIVE unicode61(_)
unicode61(text) ==
  IF text = <<>> THEN <<>>
  ELSE IF ~IsAlnum(Head(text)) THEN unicode61(Tail(text))
  ELSE << toLowerCase(SubSeq(text, 1, AlnumRun(text))) >>
         \o unicode61(SubSeq(text, AlnumRun(text) + 1, Len(text)))

\* What the MATCH operator makes of its right-hand side.  The model covers
\* the queries that are a sequence of quoted strings and barewords, which
\* FTS5 joins with AND; queries with punctuation or keyword tokens, whose
\* grammar the model does not hold, are reported as such.
Fts5Parse(z) ==
  LET toks == Fts5Lex(z)
  IN  IF toks = <<>>
      THEN [kind |-> "error", message |-> "fts5: syntax error near \"\""]
      ELSE IF \A i \in 1..Len(toks) : toks[i].type = "STRING"
      THEN [kind |-> "phrases",
            phrases |-> [i \in 1..Len(toks) |-> unicode61(toks[i].text)]]
      ELSE IF /\ toks[Len(toks)].type = "ERROR"
              /\ \A i \in 1..(Len(toks) - 1) : toks[i].type = "STRING"
      THEN [kind |-> "error",
            message |-> IF toks[Len(toks)].text = <<>>
                        THEN "unterminated string"
                        ELSE "fts5: syntax error near \""
                               \o Str(toks[Len(toks)].text) \o "\""]
      ELSE [kind |-> "operators"]

\* the tokens of the indexed columns (content, title, article_ref) of a row
ColumnTokens(row) ==
  << unicode61(row.content),
     IF row.title = NULL THEN <<>> ELSE unicode61(row.title),
     unicode61(row.article_ref) >>

\* the number of places where the phrase occurs in a sequence of tokens
PhraseHits(tokens, phrase) ==
  Cardinality({ i \in 1..Len(tokens) :
                  /\ i + Len(phrase) - 1 <= Len(tokens)
                  /\ \A k \in 1..Len(phrase) : tokens[i + k - 1] = phrase[k] })

\* the number of places where the phrase occurs in the row
Frequency(row, phrase) ==
  LET columns == ColumnTokens(row)
  IN  PhraseHits(columns[1], phrase) + PhraseHits(columns[2], phrase)
        + PhraseHits(columns[3], phrase)

\* the number of tokens of the row
DocLength(row) ==
  LET columns == ColumnTokens(row)
  IN  Len(columns[1]) + Len(columns[2]) + Len(columns[3])

RECURSIVE TotalLength(_)
TotalLength(rows) ==
  IF rows = {} THEN 0
  ELSE LET r == CHOOSE x \in rows : TRUE
       IN  DocLength(r) + TotalLength(rows \ {r})

\* the phrases of a query that hold a token; FTS5 drops the others from the
\* conjunction, and a query left without a phrase matches nothing
LivePhrases(phrases) == { i \in 1..Len(phrases) : phrases[i] # <<>> }

\* provisions_fts MATCH ? : the rows that hold every phrase of the query
Fts5Match(store, phrases) ==
  IF LivePhrases(phrases) = {} THEN {}
  ELSE { r \in store.provisions :
           \A i \in LivePhrases(phrases) : Frequency(r, phrases[i]) > 0 }

\* ORDER BY rank, as a relation on the matching rows M.  rank is the negated
\* bm25 score (k1 = 1.2, b = 0.75, every column of weight 1): for a query of
\* one phrase, r comes no later than t when
\*   f(r) / (f(r) + K(r)) >= f(t) / (f(t) + K(t)),  K(x) = 1/4 + 3/4 |x| / avg
\* with f the frequency of the phrase, |x| the token count of the row and avg
\* the mean token count of the table.  For queries of several phrases, whose
\* scores are weighted by logarithms, every order is allowed.
ByRank(store, phrases, M) ==
  IF Cardinality(LivePhrases(phrases)) = 1
  THEN LET ph == phrases[CHOOSE i \in LivePhrases(phrases) : TRUE]
           T  == TotalLength(store.provisions)
           N  == Cardinality(store.provisions)
       IN  { p \in M \X M :
               Frequency(p[1], ph) * (T + 3 * N * DocLength(p[2]))
                 >= Frequency(p[2], ph) * (T + 3 * N * DocLength(p[1])) }
  ELSE M \X M

\* the first n elements of a sequence
Take(seq, n) == SubSeq(seq, 1, IF n < Len(seq) THEN n ELSE Len(seq))

\* the rows of provisions_fts JOIN provisions JOIN agreements that satisfy
\* the WHERE clause: the query matches, the agreement is stored and, when the
\* topic is truthy, p.topic = topic
SearchMatches(store, input, phrases) ==
  { r \in Fts5Match(store, phrases) :
      /\ \E a \in store.agreements : a.id = r.agreement_id
      /\ Truthy(input, "topic") => r.topic = input.topic }

\* the columns the statement selects from a matching row (the snippet text
\* and the rank value are left out of the model)
SearchRow(store, r) ==
  LET a == CHOOSE x \in store.agreements : x.id = r.agreement_id
  IN  [id |-> r.id, agreement_id |-> r.agreement_id, article_ref |-> r.article_ref,
       title |-> r.title, chapter |-> r.chapter, topic |-> r.topic,
       agreement_title |-> a.title, parties |-> a.parties]

\* what .all() may return for the input: the matching rows in an order that
\* ORDER BY rank allows, cut to LIMIT rows
SearchRows(store, input) ==
  IF ~Has(input, "query") THEN { <<>> }
  ELSE LET parsed == Fts5Parse(escapeFTS5Query(input.query))
       IN  IF parsed.kind # "phrases" THEN { <<>> }
           ELSE LET M == SearchMatches(store, input, parsed.phrases)
                    n == clampLimit(LimitOf(input))
                IN  { [i \in 1..Len(Take(o, n)) |-> SearchRow(store, o[i])] :
                        o \in Orderings(M, ByRank(store, parsed.phrases, M)) }

\* String.prototype.includes
includes(str, part) ==
  \E i \in 1..(Len(str) + 1) :
    /\ i + Len(part) - 1 <= Len(str)
    /\ \A k \in 1..Len(part) : str[i + k - 1] = part[k]

\* input.countries && input.countries.length > 0
HasCountries(input) == Has(input, "countries") /\ Len(input.countries) > 0

\* a plausible slip: a row must hold every listed code
CountryFilter_Every(input, row) ==
  \A k \in 1..Len(input.countries) :
    includes(row.parties, toUpperCase(input.countries[k]))

\* codes.some((code) => parties.includes(code))
CountryFilter(input, row) ==
  \E k \in 1..Len(input.countries) :
    includes(row.parties, toUpperCase(input.countries[k]))

\* rows.filter(...)
RECURSIVE FilterByCountries(_, _)
FilterByCountries(input, rows) ==
  IF rows = <<>> THEN <<>>
  ELSE IF CountryFilter(input, Head(rows))
       THEN <<Head(rows)>> \o FilterByCountries(input, Tail(rows))
       ELSE FilterByCountries(input, Tail(rows))

searchAgreements(store, day, input, rows) ==
  IF ~Has(input, "query")
  THEN [outcome |-> [kind |-> "throw", error |-> "TypeError",
                     message |-> "Cannot read properties of undefined (reading 'replace')"],
        queries |-> <<>>]
  ELSE
  LET parsed == Fts5Parse(escapeFTS5Query(input.query))
  IN
  IF parsed.kind = "error"
  THEN [outcome |-> [kind |-> "throw", error |-> "SqliteError", message |-> parsed.message],
        queries |-> <<"provisions_fts">>]
  ELSE IF parsed.kind = "operators"
  THEN [outcome |-> [kind |-> "unmodelled"], queries |-> <<"provisions_fts">>]
  ELSE
  LET filtered == IF HasCountries(input) THEN FilterByCountries(input, rows) ELSE rows
  IN  [outcome |->
         [kind |-> "return",
          value |->
            [query |-> input.query,
             filters |-> [countries |-> IF Has(input, "countries")
                                        THEN input.countries ELSE NULL,
                          topic |-> IF Has(input, "topic") THEN input.topic ELSE NULL],
             count |-> Len(filtered),
             results |-> filtered,
             _meta |-> buildMeta(day)]],
       queries |-> <<"provisions_fts">>]

\* ------------------------------------------------------------------------
\* get_trade_bloc_rules
\* ------------------------------------------------------------------------

MERCOSUR_MEMBERS == << <<"B","R">>, <<"A","R">>, <<"U","Y">>, <<"P","Y">> >>

MERCOSUR_ASSOCIATES ==
  << <<"C","L">>, <<"C","O">>, <<"E","C">>, <<"P","E">>, <<"G","Y">>, <<"S","R">> >>

PACIFIC_ALLIANCE == << <<"C","L">>, <<"C","O">>, <<"M","X">>, <<"P","E">> >>

PROSUR_MEMBERS ==
  << <<"A","R">>, <<"B","R">>, <<"C","L">>, <<"C","O">>, <<"E","C">>,
     <<"G","Y">>, <<"P","E">>, <<"P","Y">>, <<"S","R">>, <<"U","Y">> >>

\* the own properties of the object BLOCS, in the order of the literal
BlocIds == << "mercosur", "pacific_alliance", "prosur" >>

BLOCS ==
  [b \in {"mercosur", "pacific_alliance", "prosur"} |->
     CASE b = "mercosur" ->
            [id |-> "mercosur", name |-> "Mercosur",
             full_name |-> "Mercado Comun del Sur (Southern Common Market)",
             members |-> MERCOSUR_MEMBERS, associates |-> MERCOSUR_ASSOCIATES]
       [] b = "pacific_alliance" ->
            [id |-> "pacific_alliance", name |-> "Pacific Alliance",
             full_name |-> "Alianza del Pacifico",
             members |-> PACIFIC_ALLIANCE, associates |-> <<>>]
       [] b = "prosur" ->
            [id |-> "prosur", name |-> "PROSUR",
             full_name |-> "Forum for the Progress and Development of South America",
             members |-> PROSUR_MEMBERS, associates |-> <<>>]]

\* the properties every object literal inherits from Object.prototype; each
\* holds a function or an object, none of which has members or associates
ObjectPrototypeKeys ==
  {"constructor", "__proto__", "hasOwnProperty", "isPrototypeOf",
   "propertyIsEnumerable", "toLocaleString", "toString", "valueOf",
   "__defineGetter__", "__defineSetter__", "__lookupGetter__", "__lookupSetter__"}

\* a plausible slip: the table is indexed with the caller's spelling
BlocKey_AsGiven(input) == Str(input.bloc)

\* input.bloc.toLowerCase()
BlocKey(input) == Str(toLowerCase(input.bloc))

\* code => ({ code, name: countryName(code) })
NamedCodes(codes) ==
  [k \in 1..Len(codes) |-> [code |-> codes[k], name |-> countryName(codes[k])]]

\* SELECT ... FROM agreements WHERE bloc_id = ?
BlocAgreements(store, blocId) ==
  { [id |-> a.id, title |-> a.title, official_name |-> a.official_name,
     year |-> a.year, agreement_type |-> a.agreement_type,
     parties |-> a.parties, status |-> a.status, source_url |-> a.source_url] :
    a \in { x \in store.agreements : x.bloc_id = blocId } }

\* ORDER BY year DESC, as a relation on the rows of S
ByYearDesc(S) == { p \in S \X S : p[1].year >= p[2].year }

\* what .all() may return for the agreements of the bloc
BlocAgreementRows(store, input) ==
  IF ~Has(input, "bloc") THEN { <<>> }
  ELSE LET S == BlocAgreements(store, toLowerCase(input.bloc))
       IN  Orderings(S, ByYearDesc(S))

\* SELECT COUNT(*) FROM provisions p JOIN agreements a ON a.id = p.agreement_id
\* WHERE a.bloc_id = ?
BlocProvisionCount(store, blocId) ==
  Cardinality({ pa \in store.provisions \X store.agreements :
                  pa[2].id = pa[1].agreement_id /\ pa[2].bloc_id = blocId })

\* { ...(blocRow ?? {}), id, name, full_name, members, associates }
BlocRecord(store, blocId, blocInfo) ==
  LET static == [id |-> blocInfo.id, name |-> blocInfo.name,
                 full_name |-> blocInfo.full_name,
                 members |-> NamedCodes(blocInfo.members),
                 associates |-> NamedCodes(blocInfo.associates)]
  IN  IF \E t \in store.trade_blocs : t.id = blocId
      THEN LET blocRow == CHOOSE t \in store.trade_blocs : t.id = blocId
           IN  static @@ [founded_year |-> blocRow.founded_year,
                          website |-> blocRow.website,
                          member_countries |-> blocRow.member_countries,
                          associate_countries |-> blocRow.associate_countries]
      ELSE static

getTradeBlocRules(store, day, input, items) ==
  IF ~Has(input, "bloc")
  THEN [outcome |-> [kind |-> "throw", error |-> "TypeError",
                     message |-> "Cannot read properties of undefined (reading 'toLowerCase')"],
        queries |-> <<>>]
  ELSE IF BlocKey(input) \in DOMAIN BLOCS
  THEN [outcome |->
          [kind |-> "return",
           value |->
             [found |-> TRUE,
              bloc |-> BlocRecord(store, toLowerCase(input.bloc), BLOCS[BlocKey(input)]),
              agreements |-> [count |-> Len(items), items |-> items],
              provisions_count |-> BlocProvisionCount(store, toLowerCase(input.bloc)),
              _meta |-> buildMeta(day)]],
        queries |-> <<"trade_blocs", "agreements", "provisions">>]
  ELSE IF BlocKey(input) \in ObjectPrototypeKeys
  THEN [outcome |-> [kind |-> "throw", error |-> "TypeError",
                     message |-> "Cannot read properties of undefined (reading 'map')"],
        queries |-> <<"trade_blocs", "agreements", "provisions">>]
  ELSE [outcome |->
          [kind |-> "return",
           value |->
             [found |-> FALSE,
              bloc |-> input.bloc,
              message |-> "Unknown trade bloc \"" \o Str(input.bloc)
                            \o "\". Valid values: mercosur, pacific_alliance, prosur.",
              _meta |-> buildMeta(day)]],
        queries |-> <<>>]

\* ------------------------------------------------------------------------
\* list_sources
\* ------------------------------------------------------------------------

\* ORDER BY authority, jurisdiction, as a relation on the rows of S
ByAuthorityJurisdiction(S) ==
  { p \in S \X S :
      IF p[1].authority = p[2].authority
      THEN SqlLessEq(p[1].jurisdiction, p[2].jurisdiction)
      ELSE SqlLessEq(p[1].authority, p[2].authority) }

\* what .all() may return for the sources
SourceRows(store) == Orderings(store.sources, ByAuthorityJurisdiction(store.sources))

listSources(store, day, sources) ==
  [outcome |->
     [kind |-> "return",
      value |->
        [sources |-> sources,
         totals |-> [trade_blocs |-> Cardinality(store.trade_blocs),
                     agreements  |-> Cardinality(store.agreements),
                     provisions  |-> Cardinality(store.provisions)],
         _meta |-> buildMeta(day)]],
   queries |-> <<"sources", "agreements", "provisions", "trade_blocs">>]

\* ------------------------------------------------------------------------
\* about
\* ------------------------------------------------------------------------

\* a plausible slip: the list of about misses the tool added last
AboutTools_WithoutFreshness ==
  << "search_agreements", "get_provision", "get_data_transfer_rules",
     "get_mutual_recognition", "get_trade_bloc_rules",
     "check_digital_trade_obligations", "list_sources", "about" >>

\* the tools array of the response of about
AboutTools ==
  << "search_agreements", "get_provision", "get_data_transfer_rules",
     "get_mutual_recognition", "get_trade_bloc_rules",
     "check_digital_trade_obligations", "list_sources", "about",
     "check_data_freshness" >>

\* The description is the source's sentence with its dash (U+2014) written
\* as "-": a module holds ASCII text only.
about(store, day) ==
  [outcome |->
     [kind |-> "return",
      value |->
        [name |-> "mercosur-trade-mcp",
         version |-> "0.1.0",
         description |->
           "Mercosur and LATAM trade agreements MCP - cross-border data transfers, mutual recognition, digital trade obligations.",
         blocs |-> [k \in 1..Len(BlocIds) |->
                      [id |-> BLOCS[BlocIds[k]].id,
                       name |-> BLOCS[BlocIds[k]].name,
                       member_count |-> Len(BLOCS[BlocIds[k]].members)]],
         statistics |->
           [trade_blocs |-> Cardinality(store.trade_blocs),
            agreements |-> Cardinality(store.agreements),
            provisions |-> Cardinality(store.provisions),
            data_transfer_rules |-> Cardinality(store.data_transfer_rules),
            mutual_recognition_agreements |-> Cardinality(store.mutual_recognition),
            digital_trade_obligations |-> Cardinality(store.digital_trade_obligations)],
         tools |-> AboutTools,
         publisher |-> "Ansvar Systems AB",
         license |-> "Apache-2.0",
         repository |-> "https://github.com/Ansvar-Systems/mercosur-trade-mcp",
         network |-> [name |-> "Ansvar MCP Network",
                      directory |-> "https://ansvar.ai/mcp"],
         _metadata |-> buildMeta(day)]],
   queries |-> <<"agreements", "provisions", "trade_blocs", "data_transfer_rules",
                 "mutual_recognition", "digital_trade_obligations">>]

\* ------------------------------------------------------------------------
\* check_data_freshness
\* ------------------------------------------------------------------------

STALE_THRESHOLD_DAYS == 90

\* the days from 1970-01-01 to the calendar dates of the model
EpochDay ==
  [d \in {"2026-01-15", "2026-07-30", "2026-10-28", "2026-10-29"} |->
     CASE d = "2026-01-15" -> 20468
       [] d = "2026-07-30" -> 20664
       [] d = "2026-10-28" -> 20754
       [] d = "2026-10-29" -> 20755]

\* a plausible slip: the difference is not raised to 0
daysSince_NoFloor(dateValue, day) ==
  IF dateValue = NULL THEN <<>>
  ELSE IF dateValue[1] = "" \/ dateValue[1] \notin DOMAIN EpochDay THEN <<>>
  ELSE << EpochDay[toIsoDate(day)] - EpochDay[dateValue[1]] >>

\* daysSince(dateValue, now): null for a missing, empty or unparseable date,
\* else the whole days from the date (midnight UTC) to now, at least 0; the
\* result is <<n>> for the number n and <<>> for null
daysSince(dateValue, day) ==
  IF dateValue = NULL THEN <<>>
  ELSE IF dateValue[1] = "" \/ dateValue[1] \notin DOMAIN EpochDay THEN <<>>
  ELSE LET age == EpochDay[toIsoDate(day)] - EpochDay[dateValue[1]]
       IN  << IF age < 0 THEN 0 ELSE age >>

\* ORDER BY authority, as a relation on the rows of S
ByAuthority(S) == { p \in S \X S : SqlLessEq(p[1].authority, p[2].authority) }

\* what .all() may return for the sources
FreshnessSourceRows(store) == Orderings(store.sources, ByAuthority(store.sources))

\* a plausible slip: a source that was never fetched is reported as fetched
\* now
SourceFreshness_FetchedDefaultsToNow(source, day) ==
  LET age == daysSince(source.last_fetched, day)
  IN  [source_id |-> source.id, full_name |-> source.full_name,
       authority |-> source.authority,
       last_fetched |-> IF source.last_fetched = NULL
                        THEN <<toIsoDate(day)>> ELSE source.last_fetched,
       last_updated |-> source.last_updated, item_count |-> source.item_count,
       age_days |-> age,
       is_stale |-> age # <<>> /\ age[1] > STALE_THRESHOLD_DAYS]

\* the entry of one source
SourceFreshness(source, day) ==
  LET age == daysSince(source.last_fetched, day)
  IN  [source_id |-> source.id, full_name |-> source.full_name,
       authority |-> source.authority, last_fetched |-> source.last_fetched,
       last_updated |-> source.last_updated, item_count |-> source.item_count,
       age_days |-> age,
       is_stale |-> age # <<>> /\ age[1] > STALE_THRESHOLD_DAYS]

\* MAX(a.last_updated) over the agreements of a bloc: NULL without a dated
\* agreement; ISO dates compare as text in the order of the calendar
NewestUpdate(rows) ==
  LET dated == { a \in rows : a.last_updated # NULL }
  IN  IF dated = {} THEN NULL
      ELSE (CHOOSE a \in dated :
              \A o \in dated : EpochDay[o.last_updated[1]] <= EpochDay[a.last_updated[1]]
           ).last_updated

\* SELECT ... FROM trade_blocs tb LEFT JOIN agreements a ON a.bloc_id = tb.id
\* GROUP BY tb.id
BlocStats(store) ==
  { [bloc_id |-> tb.id, bloc_name |-> tb.name,
     agreement_count |-> Cardinality({ a \in store.agreements : a.bloc_id = tb.id }),
     newest_update |-> NewestUpdate({ a \in store.agreements : a.bloc_id = tb.id })] :
    tb \in store.trade_blocs }

\* ORDER BY tb.id, as a relation on the rows of S
ByBlocId(S) == { p \in S \X S : SqlLessEq(p[1].bloc_id, p[2].bloc_id) }

\* The function reads the clock twice: `now` (day) for the ages and for
\* checked_at, and again in buildMeta() after the second statement has run
\* (later), so that midnight may fall between the two readings.  The result
\* also tells the day on which the call ends.
checkDataFreshness(store, day, later, sources) ==
  LET freshness == [k \in 1..Len(sources) |-> SourceFreshness(sources[k], day)]
      stats     == CHOOSE o \in Orderings(BlocStats(store), ByBlocId(BlocStats(store))) : TRUE
  IN  [outcome |->
         [kind |-> "return",
          value |->
            [checked_at |-> toIsoDate(day),
             stale_threshold_days |-> STALE_THRESHOLD_DAYS,
             stale_count |-> Cardinality({ k \in 1..Len(freshness) : freshness[k].is_stale }),
             total_sources |-> Len(sources),
             sources |-> freshness,
             blocs |-> [k \in 1..Len(stats) |->
                          [bloc_id |-> stats[k].bloc_id,
                           bloc_name |-> stats[k].bloc_name,
                           agreement_count |-> stats[k].agreement_count,
                           newest_update |-> stats[k].newest_update,
                           age_days |-> daysSince(stats[k].newest_update, day)]],
             _metadata |-> buildMeta(later)]],
       queries |-> <<"sources", "trade_blocs">>,
       clock |-> later]

\* the day on which a call that began on the given day ends: the day of its
\* last reading of the clock when it reads the clock more than once
ClockAfter(r, day) == IF "clock" \in DOMAIN r THEN r.clock ELSE day

\* ------------------------------------------------------------------------
\* The servers: tool catalogue and dispatch
\* ------------------------------------------------------------------------

\* the catalogue of the stdio server: name and required arguments
TOOLS ==
  << [name |-> "search_agreements", required |-> {"query"}],
     [name |-> "get_provision", required |-> {"agreement_id", "article"}],
     [name |-> "get_data_transfer_rules", required |-> {"source_country", "dest_country"}],
     [name |-> "get_mutual_recognition", required |-> {"country_a", "country_b"}],
     [name |-> "get_trade_bloc_rules", required |-> {"bloc"}],
     [name |-> "check_digital_trade_obligations", required |-> {"countries"}],
     [name |-> "list_sources", required |-> {}],
     [name |-> "about", required |-> {}],
     [name |-> "check_data_freshness", required |-> {}] >>

\* the catalogue of the HTTP handler
HTTP_TOOLS ==
  << [name |-> "search_agreements", required |-> {"query"}],
     [name |-> "get_provision", required |-> {"agreement_id", "article"}],
     [name |-> "get_data_transfer_rules", required |-> {"source_country", "dest_country"}],
     [name |-> "get_mutual_recognition", required |-> {"country_a", "country_b"}],
     [name |-> "get_trade_bloc_rules", required |-> {"bloc"}],
     [name |-> "check_digital_trade_obligations", required |-> {"countries"}],
     [name |-> "list_sources", required |-> {}],
     [name |-> "about", required |-> {}],
     [name |-> "check_data_freshness", required |-> {}] >>

\* the case labels of the switch in handleToolCall
DispatchedNames ==
  {"search_agreements", "get_provision", "get_data_transfer_rules",
   "get_mutual_recognition", "get_trade_bloc_rules",
   "check_digital_trade_obligations", "list_sources", "about",
   "check_data_freshness"}

\* a plausible slip: the default case returns instead of throwing
UnknownTool_Returns(name) ==
  [outcome |-> [kind |-> "return",
                value |-> [found |-> FALSE, message |-> "Unknown tool: " \o name]],
   queries |-> <<>>]

\* default: throw new Error(`Unknown tool: ${name}`)
UnknownTool(name) ==
  [outcome |-> [kind |-> "throw", error |-> "Error",
                message |-> "Unknown tool: " \o name],
   queries |-> <<>>]

\* handleToolCall(db, name, args): what the call may do, one element for
\* each order in which the store may deliver the rows
handleToolCall(store, day, name, args) ==
  CASE name = "search_agreements" ->
         { searchAgreements(store, day, args, rows) : rows \in SearchRows(store, args) }
    [] name = "get_provision" ->
         { getProvision(store, day, args) }
    [] name = "get_data_transfer_rules" ->
         { getDataTransferRules(store, day, args) }
    [] name = "get_mutual_recognition" ->
         { getMutualRecognition(store, day, args, rows) :
             rows \in MutualRecognitionRows(store, args) }
    [] name = "get_trade_bloc_rules" ->
         { getTradeBlocRules(store, day, args, items) :
             items \in BlocAgreementRows(store, args) }
    [] name = "check_digital_trade_obligations" ->
         { checkDigitalTradeObligations(store, day, args, rows) :
             rows \in ObligationRows(store, args) }
    [] name = "list_sources" ->
         { listSources(store, day, sources) : sources \in SourceRows(store) }
    [] name = "about" ->
         { about(store, day) }
    [] name = "check_data_freshness" ->
         { checkDataFreshness(store, day, later, sources) :
             later \in { d \in {day, day + 1} : d <= Len(Dates) },
             sources \in FreshnessSourceRows(store) }
    [] OTHER ->
         { UnknownTool(name) }

\* handleToolCall(db, name, undefined), the call that callTool makes when it
\* is given no arguments object: the tools that take no input and the default
\* case do what they do on {}, the others throw at the first property of
\* input they read (get_provision after it has prepared its statement)
handleToolCallUndefined(store, day, name) ==
  LET reads == [search_agreements |-> "limit", get_provision |-> "agreement_id",
                get_data_transfer_rules |-> "source_country",
                get_mutual_recognition |-> "country_a",
                get_trade_bloc_rules |-> "bloc",
                check_digital_trade_obligations |-> "countries"]
      thrown == [kind |-> "throw", error |-> "TypeError",
                 message |-> "Cannot read properties of undefined (reading '"
                               \o reads[name] \o "')"]
  IN  IF name \notin DOMAIN reads
      THEN handleToolCall(store, day, name, NoArgs)
      ELSE IF name = "get_provision"
      THEN { [outcome |-> thrown, queries |-> <<>>, prepared |-> TRUE] }
      ELSE { [outcome |-> thrown, queries |-> <<>>] }

\* the call on a handle in the given state: after db.close() the first
\* statement a tool prepares throws, and a call that prepares no statement
\* does what it does on an open handle
OnHandle(r, handle) ==
  IF handle = "closed" /\ (r.queries # <<>> \/ "prepared" \in DOMAIN r)
  THEN [outcome |-> [kind |-> "throw", error |-> "TypeError",
                     message |-> "The database connection is not open"],
        queries |-> <<>>]
  ELSE r

\* a plausible slip: the request handler lets the exception through
ToolResult_NoCatch(result) ==
  IF result.kind = "throw" THEN result
  ELSE [kind |-> "result", content |-> <<[type |-> "text", json |-> result.value]>>]

\* the try/catch of the CallToolRequest handler: the returned value as JSON
\* text (the value stands for its text), a thrown error as an error result
ToolResult(result) ==
  IF result.kind = "throw"
  THEN [kind |-> "result",
        content |-> <<[type |-> "text", text |-> "Error: " \o result.message]>>,
        isError |-> TRUE]
  ELSE [kind |-> "result", content |-> <<[type |-> "text", json |-> result.value]>>]

\* the store after the statements of a call: every statement is a SELECT on
\* a handle opened with readonly: true
Execute(store, statements) == store

\* ------------------------------------------------------------------------
\* Inputs
\* ------------------------------------------------------------------------

\* country-code arguments of the bilateral tools
PairCodes == { <<"A","R">>, <<"a","r">>, <<"E","U">>, <<"e","U">>,
               <<"B","R">>, <<"Z","Z">>, <<>> }

\* domain arguments of get_mutual_recognition: absent, empty, stored, stored
\* in another case, and not stored
DomainArgs == { undefined, <<>>, <<"c","u">>, <<"C","u">>, <<"s","t">>, <<"z","z">> }

\* country codes passed to check_digital_trade_obligations: stored codes in
\* both cases, a code no row holds, the LIKE wildcards and the empty string
ScanCodes == { <<"A","R">>, <<"a","r">>, <<"M","X">>, <<"Z","Z">>,
               <<"_">>, <<"%">>, <<>> }

\* the countries lists of at most n codes
RECURSIVE CodeLists(_)
CodeLists(n) ==
  IF n = 0 THEN { <<>> }
  ELSE CodeLists(n - 1)
         \cup { Append(l, c) : l \in { x \in CodeLists(n - 1) : Len(x) = n - 1 },
                               c \in ScanCodes }

\* arguments of get_provision
AgreementIds == { <<"a","1">>, <<"A","1">>, <<"a","9">>, <<"z","z">>, <<>> }

Articles == { <<"1">>, <<"2">>, <<"9">>, <<" ","1">>, <<>> }

\* query arguments of search_agreements: absent, empty, words the store
\* holds, a word it does not hold, special characters only, and two words
QueryArgs ==
  { undefined, <<>>, <<"t","r","a","d","e">>, <<"T","a","x">>, <<"z","z">>,
    <<"*","*","*","!","!","!","#","#","#">>,
    <<"t","r","a","d","e"," ","l","a","w">> }

\* topic arguments: absent, empty, and a stored topic
TopicArgs == { undefined, <<>>, <<"c","u">> }

\* countries arguments of search_agreements; NoArgs stands for an absent list
SearchCountryArgs ==
  { NoArgs, [countries |-> <<>>], [countries |-> << <<"b","r">> >>],
    [countries |-> << <<"M","X">>, <<"Z","Z">> >>] }

\* limit arguments: absent, not finite, zero, negative and fractional, a
\* fraction above 1, and a value above the maximum
LimitArgs ==
  { NoArgs, [limit |-> [kind |-> "NaN"]], [limit |-> [kind |-> "number", tenths |-> 0]],
    [limit |-> [kind |-> "number", tenths |-> -15]],
    [limit |-> [kind |-> "number", tenths |-> 19]],
    [limit |-> [kind |-> "number", tenths |-> 510]] }

\* bloc arguments: absent, the three ids in several cases, an unknown id, the
\* empty string, and names of inherited properties
BlocArgs ==
  { undefined,
    <<"m","e","r","c","o","s","u","r">>, <<"M","e","r","c","o","S","U","R">>,
    <<"p","a","c","i","f","i","c","_","a","l","l","i","a","n","c","e">>,
    <<"P","R","O","S","U","R">>, <<"z","z">>, <<>>,
    <<"c","o","n","s","t","r","u","c","t","o","r">>,
    <<"t","o","S","t","r","i","n","g">> }

\* tool names that are not in the catalogue
UnknownNames == { "nonexistent_tool", "", "About" }

\* the tools/call requests sent to the servers: every tool of the catalogue,
\* calls that throw, and a name that is not in the catalogue
CallToolRequests ==
  { [name |-> "search_agreements", arguments |-> [query |-> <<"t","r","a","d","e">>]],
    [name |-> "search_agreements", arguments |-> [query |-> <<>>]],
    [name |-> "get_provision",
     arguments |-> [agreement_id |-> <<"a","1">>, article |-> <<"1">>]],
    [name |-> "get_data_transfer_rules",
     arguments |-> [source_country |-> <<"A","R">>, dest_country |-> <<"E","U">>]],
    [name |-> "get_data_transfer_rules", arguments |-> [source_country |-> <<"A","R">>]],
    [name |-> "get_mutual_recognition",
     arguments |-> [country_a |-> <<"A","R">>, country_b |-> <<"B","R">>]],
    [name |-> "get_mutual_recognition"],
    [name |-> "get_trade_bloc_rules", arguments |-> [bloc |-> <<"P","R","O","S","U","R">>]],
    [name |-> "get_trade_bloc_rules",
     arguments |-> [bloc |-> <<"c","o","n","s","t","r","u","c","t","o","r">>]],
    [name |-> "check_digital_trade_obligations",
     arguments |-> [countries |-> << <<"A","R">> >>]],
    [name |-> "list_sources"],
    [name |-> "about", arguments |-> NoArgs],
    [name |-> "check_data_freshness"],
    [name |-> "nonexistent_tool", arguments |-> NoArgs] }

\* args ?? {}
ArgumentsOf(request) ==
  IF "arguments" \in DOMAIN request THEN request.arguments ELSE NoArgs

\* ------------------------------------------------------------------------
\* Behaviour
\* ------------------------------------------------------------------------

\* the stdio process after createServer() and server.connect(): the handle is
\* open and requests are served.  handles holds the handle of each call of
\* createServer(), in the order of the calls; isMain is the module's test of
\* process.argv[1], and imported says that another script imports the module.
Serving ==
  [state |-> "serving", isMain |-> TRUE, imported |-> FALSE,
   handles |-> <<"open">>, code |-> "none"]

\* the k-th handle is that of a server the importing script has created: the
\* module has run (as far as connect() when isMain holds, whose own server
\* holds the first handle and is not exported) and the process is alive
Instance(k) ==
  /\ proc.imported
  /\ proc.state \in (IF proc.isMain THEN {"created", "serving"} ELSE {"loaded"})
  /\ k \in DOMAIN proc.handles
  /\ k > (IF proc.isMain THEN 1 ELSE 0)

\* the request handlers of the k-th server of the process are reached: the
\* module has connected its own server to the stdio transport, and the
\* importing script connects the servers it creates itself
Receiving(k) ==
  /\ k \in DOMAIN proc.handles
  /\ IF proc.isMain /\ k = 1 THEN proc.state = "serving" ELSE Instance(k)

\* no HTTP handler has been loaded in this process
NoDeployment == [loaded |-> FALSE]

\* the build script is not running
NoBuild == [running |-> FALSE]

Init ==
  /\ db \in Stores
  /\ today = 1
  /\ req = [tool |-> "none"]
  /\ outcome = [kind |-> "none"]
  /\ queries = <<>>
  /\ proc = Serving
  /\ http = NoDeployment
  /\ build = NoBuild

\* no call is in progress
Idle == req.tool = "none"

\* midnight passes between two calls; midnight during a call is the call's own
\* step (check_data_freshness, the one tool that reads the clock twice)
Tick ==
  /\ Idle
  /\ UNCHANGED hosts
  /\ today < Len(Dates)
  /\ today' = today + 1
  /\ UNCHANGED <<db, req, outcome, queries>>

\* the caller takes the result of the call; the next call may arrive
Respond ==
  /\ ~Idle
  /\ UNCHANGED hosts
  /\ req' = [tool |-> "none"]
  /\ outcome' = [kind |-> "none"]
  /\ queries' = <<>>
  /\ UNCHANGED <<db, today>>

CallGetDataTransferRules ==
  /\ Idle
  /\ UNCHANGED hosts
  /\ \E s, d \in PairCodes \cup {undefined} :
       LET input == Arg("source_country", s) @@ Arg("dest_country", d)
           r     == getDataTransferRules(db, today, input)
       IN  /\ req' = [tool |-> "get_data_transfer_rules", args |-> input]
           /\ outcome' = r.outcome
           /\ queries' = r.queries
           /\ db' = Execute(db, r.queries)
           /\ UNCHANGED today

CallGetMutualRecognition ==
  /\ Idle
  /\ UNCHANGED hosts
  /\ \E a, b \in PairCodes \cup {undefined}, domain \in DomainArgs :
       LET input == Arg("country_a", a) @@ Arg("country_b", b) @@ Arg("domain", domain)
       IN  \E rows \in MutualRecognitionRows(db, input) :
             LET r == getMutualRecognition(db, today, input, rows)
             IN  /\ req' = [tool |-> "get_mutual_recognition", args |-> input]
                 /\ outcome' = r.outcome
                 /\ queries' = r.queries
                 /\ db' = Execute(db, r.queries)
                 /\ UNCHANGED today

CallCheckDigitalTradeObligations ==
  /\ Idle
  /\ UNCHANGED hosts
  /\ \E input \in { [countries |-> l] : l \in CodeLists(MaxCodes) } \cup { NoArgs } :
           \E rows \in ObligationRows(db, input) :
             LET r == checkDigitalTradeObligations(db, today, input, rows)
             IN  /\ req' = [tool |-> "check_digital_trade_obligations", args |-> input]
                 /\ outcome' = r.outcome
                 /\ queries' = r.queries
                 /\ db' = Execute(db, r.queries)
                 /\ UNCHANGED today

CallGetProvision ==
  /\ Idle
  /\ UNCHANGED hosts
  /\ \E agreement_id \in AgreementIds, article \in Articles :
       LET input == [agreement_id |-> agreement_id, article |-> article]
           r     == getProvision(db, today, input)
       IN  /\ req' = [tool |-> "get_provision", args |-> input]
           /\ outcome' = r.outcome
           /\ queries' = r.queries
           /\ db' = Execute(db, r.queries)
           /\ UNCHANGED today

CallSearchAgreements ==
  /\ Idle
  /\ UNCHANGED hosts
  /\ \E query \in QueryArgs, topic \in TopicArgs,
        countries \in SearchCountryArgs, limit \in LimitArgs :
       LET input == Arg("query", query) @@ Arg("topic", topic) @@ countries @@ limit
       IN  \E rows \in SearchRows(db, input) :
             LET r == searchAgreements(db, today, input, rows)
             IN  /\ req' = [tool |-> "search_agreements", args |-> input]
                 /\ outcome' = r.outcome
                 /\ queries' = r.queries
                 /\ db' = Execute(db, r.queries)
                 /\ UNCHANGED today

CallGetTradeBlocRules ==
  /\ Idle
  /\ UNCHANGED hosts
  /\ \E bloc \in BlocArgs :
       LET input == Arg("bloc", bloc)
       IN  \E items \in BlocAgreementRows(db, input) :
             LET r == getTradeBlocRules(db, today, input, items)
             IN  /\ req' = [tool |-> "get_trade_bloc_rules", args |-> input]
                 /\ outcome' = r.outcome
                 /\ queries' = r.queries
                 /\ db' = Execute(db, r.queries)
                 /\ UNCHANGED today

CallListSources ==
  /\ Idle
  /\ UNCHANGED hosts
  /\ \E sources \in SourceRows(db) :
       LET r == listSources(db, today, sources)
       IN  /\ req' = [tool |-> "list_sources", args |-> NoArgs]
           /\ outcome' = r.outcome
           /\ queries' = r.queries
           /\ db' = Execute(db, r.queries)
           /\ UNCHANGED today

CallAbout ==
  /\ Idle
  /\ UNCHANGED hosts
  /\ LET r == about(db, today)
     IN  /\ req' = [tool |-> "about", args |-> NoArgs]
         /\ outcome' = r.outcome
         /\ queries' = r.queries
         /\ db' = Execute(db, r.queries)
         /\ UNCHANGED today

CallCheckDataFreshness ==
  /\ Idle
  /\ UNCHANGED hosts
  /\ \E sources \in FreshnessSourceRows(db),
        later \in { d \in {today, today + 1} : d <= Len(Dates) } :
       LET r == checkDataFreshness(db, today, later, sources)
       IN  /\ req' = [tool |-> "check_data_freshness", args |-> NoArgs]
           /\ outcome' = r.outcome
           /\ queries' = r.queries
           /\ db' = Execute(db, r.queries)
           /\ today' = ClockAfter(r, today)

\* callTool with a name that no case of the switch holds
CallUnknownTool ==
  /\ Idle
  /\ UNCHANGED hosts
  /\ \E name \in UnknownNames :
       LET r == UnknownTool(name)
       IN  /\ req' = [tool |-> name, args |-> NoArgs]
           /\ outcome' = r.outcome
           /\ queries' = r.queries
           /\ db' = Execute(db, r.queries)
           /\ UNCHANGED today

\* getTools()
GetTools ==
  /\ Idle
  /\ UNCHANGED hosts
  /\ req' = [tool |-> "getTools"]
  /\ outcome' = [kind |-> "return", value |-> TOOLS]
  /\ queries' = <<>>
  /\ UNCHANGED <<db, today>>

\* the CallToolRequest handler of the stdio server
StdioCallTool ==
  /\ Idle
  /\ UNCHANGED hosts
  /\ \E k \in DOMAIN proc.handles, request \in CallToolRequests :
       /\ Receiving(k)
       /\ \E called \in handleToolCall(db, today, request.name, ArgumentsOf(request)) :
            LET r == OnHandle(called, proc.handles[k])
            IN  /\ req' = [tool |-> "tools/call", server |-> "stdio", instance |-> k,
                           params |-> request]
                /\ outcome' = ToolResult(r.outcome)
                /\ queries' = r.queries
                /\ db' = Execute(db, r.queries)
                /\ today' = ClockAfter(r, today)

\* the ListToolsRequest handler of the stdio server
StdioListTools ==
  /\ Idle
  /\ \E k \in DOMAIN proc.handles : Receiving(k)
  /\ UNCHANGED hosts
  /\ req' = [tool |-> "tools/list", server |-> "stdio"]
  /\ outcome' = [kind |-> "result", tools |-> TOOLS]
  /\ queries' = <<>>
  /\ UNCHANGED <<db, today>>

\* the CallToolRequest handler of the HTTP handler
HttpCallTool ==
  /\ Idle
  /\ UNCHANGED hosts
  /\ \E request \in CallToolRequests :
       \E r \in handleToolCall(db, today, request.name, ArgumentsOf(request)) :
         /\ req' = [tool |-> "tools/call", server |-> "http", params |-> request]
         /\ outcome' = ToolResult(r.outcome)
         /\ queries' = r.queries
         /\ db' = Execute(db, r.queries)
         /\ today' = ClockAfter(r, today)

\* the ListToolsRequest handler of the HTTP handler
HttpListTools ==
  /\ Idle
  /\ UNCHANGED hosts
  /\ req' = [tool |-> "tools/list", server |-> "http"]
  /\ outcome' = [kind |-> "result", tools |-> HTTP_TOOLS]
  /\ queries' = <<>>
  /\ UNCHANGED <<db, today>>

Next ==
  \/ Tick
  \/ Respond
  \/ CallGetDataTransferRules
  \/ CallGetMutualRecognition
  \/ CallCheckDigitalTradeObligations
  \/ CallGetProvision
  \/ CallSearchAgreements
  \/ CallGetTradeBlocRules
  \/ CallListSources
  \/ CallAbout
  \/ CallCheckDataFreshness
  \/ CallUnknownTool
  \/ GetTools
  \/ StdioCallTool
  \/ StdioListTools
  \/ HttpCallTool
  \/ HttpListTools

Spec == Init /\ [][Next]_vars

\* the calls of the three tools that take country codes, on their own
CountryNext ==
  \/ Tick
  \/ Respond
  \/ CallGetDataTransferRules
  \/ CallGetMutualRecognition
  \/ CallCheckDigitalTradeObligations

CountrySpec == Init /\ [][CountryNext]_vars

\* ------------------------------------------------------------------------
\* The stdio server process
\* ------------------------------------------------------------------------

\* the module is loaded, as the main script or imported by another script
\* (whose name may itself end with index.js, so that isMain holds): the
\* signal handlers are registered and createServer() has not been called.
\* Run as a main script whose name ends otherwise, the module creates no
\* server and nothing imports it.
Loaded(isMain, imported) ==
  [state |-> "loaded", isMain |-> isMain, imported |-> imported,
   handles |-> <<>>, code |-> "none"]

\* process.exit(code), or the end of the process on an uncaught exception
\* (code 1): the process ends with its handle as it stands
Exit(process, code) == [process EXCEPT !.state = "exited", !.code = code]

\* createServer() opens the database read-only and registers the handlers.
\* The module calls it once when isMain holds, and goes on to connect(); a
\* script that imports the module may call it, after the module has run, any
\* number of times, and each call opens a handle of its own.
CreateServer ==
  \/ /\ proc.state = "loaded"
     /\ proc.isMain
     /\ proc' = [proc EXCEPT !.state = "created", !.handles = Append(@, "open")]
     /\ UNCHANGED <<db, today, req, outcome, queries, http, build>>
  \/ /\ proc.imported
     /\ proc.state \in (IF proc.isMain THEN {"created", "serving"} ELSE {"loaded"})
     /\ Len(proc.handles) < MaxServers + (IF proc.isMain THEN 1 ELSE 0)
     /\ proc' = [proc EXCEPT !.handles = Append(@, "open")]
     /\ UNCHANGED <<db, today, req, outcome, queries, http, build>>

\* new Database(resolvedPath) throws.  In the module's main branch the
\* exception leaves the module: the process ends without a handle, unless a
\* script imports the module and catches the rejected import, and then the
\* process goes on without a server and without the module's exports, its
\* signal handlers registered.  In a call of the importing script no handle
\* is added, and the process goes on when the script catches the exception
\* and ends when it does not.
CreateServerThrows ==
  \/ /\ proc.state = "loaded"
     /\ proc.isMain
     /\ proc' \in {Exit(proc, "1")}
                  \cup (IF proc.imported
                        THEN {[proc EXCEPT !.state = "failed"]} ELSE {})
     /\ UNCHANGED <<db, today, req, outcome, queries, http, build>>
  \/ /\ proc.imported
     /\ proc.state \in (IF proc.isMain THEN {"created", "serving"} ELSE {"loaded"})
     /\ proc' \in {proc, Exit(proc, "1")}
     /\ UNCHANGED <<db, today, req, outcome, queries, http, build>>

\* instance.close() in a script that imports the module: db.close() on the
\* handle of that server; closing a closed handle does nothing
close(k) ==
  /\ Idle
  /\ Instance(k)
  /\ proc' = [proc EXCEPT !.handles[k] = "closed"]
  /\ UNCHANGED <<db, today, req, outcome, queries, http, build>>

\* instance.callTool(name, args) in a script that imports the module:
\* handleToolCall on the handle of that server with the arguments as given,
\* outside any try/catch
callTool(k) ==
  /\ Idle
  /\ Instance(k)
  /\ UNCHANGED hosts
  /\ \E request \in CallToolRequests :
       \E called \in IF "arguments" \in DOMAIN request
                     THEN handleToolCall(db, today, request.name, request.arguments)
                     ELSE handleToolCallUndefined(db, today, request.name) :
         LET r == OnHandle(called, proc.handles[k])
         IN  /\ req' = [tool |-> request.name,
                        args |-> IF "arguments" \in DOMAIN request
                                 THEN request.arguments ELSE undefined]
             /\ outcome' = r.outcome
             /\ queries' = r.queries
             /\ db' = Execute(db, r.queries)
             /\ today' = ClockAfter(r, today)

\* server.connect(transport) resolves: requests are served
Connect ==
  /\ proc.state = "created"
  /\ proc' = [proc EXCEPT !.state = "serving"]
  /\ UNCHANGED <<db, today, req, outcome, queries, http, build>>

\* server.connect(transport) rejects: process.exit(1)
ConnectFails ==
  /\ proc.state = "created"
  /\ proc' = Exit(proc, "1")
  /\ UNCHANGED <<db, today, req, outcome, queries, http, build>>

\* SIGINT or SIGTERM: shutdown() runs between two requests; a result that
\* was not taken yet is lost with the process
shutdown ==
  /\ proc.state \in {"loaded", "failed", "created", "serving"}
  /\ proc' = Exit(proc, "0")
  /\ req' = [tool |-> "none"]
  /\ outcome' = [kind |-> "none"]
  /\ queries' = <<>>
  /\ UNCHANGED <<db, today, http, build>>

StdioInit ==
  /\ db \in Stores
  /\ today = 1
  /\ req = [tool |-> "none"]
  /\ outcome = [kind |-> "none"]
  /\ queries = <<>>
  /\ \E isMain, imported \in BOOLEAN : proc = Loaded(isMain, imported)
  /\ http = NoDeployment
  /\ build = NoBuild

StdioNext ==
  \/ CreateServer
  \/ CreateServerThrows
  \/ \E k \in 1..(MaxServers + 1) : close(k)
  \/ \E k \in 1..(MaxServers + 1) : callTool(k)
  \/ Connect
  \/ ConnectFails
  \/ shutdown
  \/ StdioCallTool
  \/ StdioListTools
  \/ Respond

StdioSpec == StdioInit /\ [][StdioNext]_vars

\* ------------------------------------------------------------------------
\* The HTTP deployment (api/mcp.ts)
\* ------------------------------------------------------------------------

\* the default of SOURCE_DB, written relative to process.cwd()
SOURCE_DB == "data/database.db"

TMP_DB == "/tmp/database.db"

\* what the engine finds at TMP_DB once a file is there: a database, a file
\* that is not a database, or a directory (which TMP_DB then already is)
DatabaseFiles == { "database", "not a database", "directory" }

\* req.method of an invocation
Methods == { "OPTIONS", "GET", "POST", "PUT" }

\* req.body of a POST: the JSON-RPC requests the transport hands to the server
HttpBodies ==
  { [method |-> "tools/list"],
    [method |-> "tools/call", params |-> [name |-> "about", arguments |-> NoArgs]],
    [method |-> "tools/call", params |-> [name |-> "nonexistent_tool", arguments |-> NoArgs]] }

\* an invocation that has not arrived; transport says what has become of
\* transport.handleRequest: not called, called with its reply pending, the
\* reply written, or the call rejected
NotInvoked ==
  [pc |-> "none", method |-> "", body |-> [method |-> ""], database |-> 0,
   transport |-> "none", responses |-> <<>>, headersSent |-> FALSE]

\* the module once loaded: db is null (0), nothing has been opened; source,
\* tmp and lock say which of SOURCE_DB, TMP_DB and TMP_DB_LOCK exist, and
\* file is what the engine finds at TMP_DB
Deployment(source, tmp, lock, file) ==
  [loaded |-> TRUE, db |-> 0, opened |-> 0,
   source |-> source, tmp |-> tmp, lock |-> lock, file |-> file,
   inv |-> [i \in 1..MaxInvocations |-> NotInvoked]]

\* a plausible slip: the handle is opened on every call
getDatabase_AlwaysOpens(h) ==
  IF ~h.tmp /\ ~h.source
  THEN { [state |-> [h EXCEPT !.lock = FALSE],
          outcome |-> [kind |-> "throw",
                       message |-> "ENOENT: no such file or directory, copyfile '"
                                   \o SOURCE_DB \o "' -> '" \o TMP_DB \o "'"]] }
  ELSE IF h.file = "directory"
  THEN { [state |-> [h EXCEPT !.lock = FALSE, !.tmp = TRUE],
          outcome |-> [kind |-> "throw", message |-> "disk I/O error"]] }
  ELSE { [state |-> [h EXCEPT !.lock = FALSE, !.tmp = TRUE,
                              !.opened = h.opened + 1, !.db = h.opened + 1],
          outcome |-> [kind |-> "return", value |-> h.opened + 1]] }

\* getDatabase(): the module state after the call and what the call gives.
\* A handle is named by its rank among the handles opened by the process.
\* The engine reads the file at the first statement, so a file that is not a
\* database is opened like a database; a directory is not opened.
getDatabase(h) ==
  IF h.db # 0
  THEN { [state |-> h, outcome |-> [kind |-> "return", value |-> h.db]] }
  ELSE IF ~h.tmp /\ ~h.source
  THEN { [state |-> [h EXCEPT !.lock = FALSE],
          outcome |-> [kind |-> "throw",
                       message |-> "ENOENT: no such file or directory, copyfile '"
                                   \o SOURCE_DB \o "' -> '" \o TMP_DB \o "'"]] }
  ELSE IF h.file = "directory"
  THEN { [state |-> [h EXCEPT !.lock = FALSE, !.tmp = TRUE],
          outcome |-> [kind |-> "throw", message |-> "disk I/O error"]] }
  ELSE { [state |-> [h EXCEPT !.lock = FALSE, !.tmp = TRUE,
                              !.opened = h.opened + 1, !.db = h.opened + 1],
          outcome |-> [kind |-> "return", value |-> h.opened + 1]] }

\* res.status(code).json(body) or .end(): one response is written
Send(invocation, status, body) ==
  [invocation EXCEPT !.responses = Append(@, [status |-> status, body |-> body]),
                     !.headersSent = TRUE]

\* a plausible slip: the catch block answers whatever has been sent
Catch_AlwaysResponds(invocation, message) ==
  [Send(invocation, 500, [error |-> message]) EXCEPT !.pc = "done"]

\* the catch block of the handler
Catch(invocation, message) ==
  IF invocation.headersSent
  THEN [invocation EXCEPT !.pc = "done"]
  ELSE [Send(invocation, 500, [error |-> message]) EXCEPT !.pc = "done"]

\* the handler is invoked with the given method and body, and runs to its
\* first await or to its return
Arrive(i, method, body) ==
  [http.inv[i] EXCEPT !.pc = "entered", !.method = method, !.body = body]

\* req.method === 'OPTIONS'
HttpPreflight(i) ==
  /\ http.loaded
  /\ http.inv[i].pc = "none"
  /\ http' = [http EXCEPT !.inv[i] =
                [Send(Arrive(i, "OPTIONS", [method |-> ""]), 204, [error |-> ""])
                   EXCEPT !.pc = "done"]]
  /\ UNCHANGED <<db, today, req, outcome, queries, proc, build>>

\* req.method === 'GET'
HttpInfo(i) ==
  /\ http.loaded
  /\ http.inv[i].pc = "none"
  /\ http' = [http EXCEPT !.inv[i] =
                [Send(Arrive(i, "GET", [method |-> ""]), 200,
                      [name |-> "mercosur-trade-mcp", version |-> "0.1.0",
                       protocol |-> "mcp-streamable-http"])
                   EXCEPT !.pc = "done"]]
  /\ UNCHANGED <<db, today, req, outcome, queries, proc, build>>

\* any other method, and neither SOURCE_DB nor TMP_DB exists
HttpDatabaseMissing(i) ==
  /\ http.loaded
  /\ http.inv[i].pc = "none"
  /\ ~http.source /\ ~http.tmp
  /\ \E method \in Methods \ {"OPTIONS", "GET"}, body \in HttpBodies :
       http' = [http EXCEPT !.inv[i] =
                  [Send(Arrive(i, method, body), 500,
                        [error |-> "Database not found at " \o SOURCE_DB])
                     EXCEPT !.pc = "done"]]
  /\ UNCHANGED <<db, today, req, outcome, queries, proc, build>>

\* any other method with a database file: getDatabase(), the server and the
\* transport are made, and the handler awaits server.connect(transport)
HttpOpen(i) ==
  /\ http.loaded
  /\ http.inv[i].pc = "none"
  /\ http.source \/ http.tmp
  /\ \E method \in Methods \ {"OPTIONS", "GET"}, body \in HttpBodies :
       \E r \in getDatabase(http) :
         http' = [r.state EXCEPT !.inv[i] =
                    IF r.outcome.kind = "throw"
                    THEN Catch(Arrive(i, method, body), r.outcome.message)
                    ELSE [Arrive(i, method, body) EXCEPT
                            !.pc = "connect", !.database = r.outcome.value]]
  /\ UNCHANGED <<db, today, req, outcome, queries, proc, build>>

\* server.connect(transport) resolves and transport.handleRequest is called
HttpConnect(i) ==
  /\ http.loaded
  /\ http.inv[i].pc = "connect"
  /\ http' = [http EXCEPT !.inv[i].pc = "handle", !.inv[i].transport = "pending"]
  /\ UNCHANGED <<db, today, req, outcome, queries, proc, build>>

\* what the transport writes for the request: the result of the registered
\* handler for a POST, 405 for a method it does not support.  On a handle to
\* a file that is not a database the first statement of a tool throws, inside
\* the try/catch of the handler.
TransportReplies(invocation) ==
  IF invocation.method # "POST"
  THEN { [status |-> 405, body |-> [error |-> "Method not allowed."]] }
  ELSE IF invocation.body.method = "tools/list"
  THEN { [status |-> 200, body |-> [kind |-> "result", tools |-> HTTP_TOOLS]] }
  ELSE { [status |-> 200,
           body |-> ToolResult(IF http.file = "not a database" /\ r.queries # <<>>
                               THEN [kind |-> "throw", message |-> "file is not a database"]
                               ELSE r.outcome)] :
           r \in handleToolCall(db, today, invocation.body.params.name,
                                ArgumentsOf(invocation.body.params)) }

\* the transport answers the request, while the handler awaits
\* transport.handleRequest or after the handler has returned
HttpTransportReply(i) ==
  /\ http.loaded
  /\ http.inv[i].pc \in {"handle", "done"}
  /\ http.inv[i].transport = "pending"
  /\ \E reply \in TransportReplies(http.inv[i]) :
       http' = [http EXCEPT !.inv[i] =
                  [Send(http.inv[i], reply.status, reply.body)
                     EXCEPT !.transport = "replied"]]
  /\ UNCHANGED <<db, today, req, outcome, queries, proc, build>>

\* transport.handleRequest resolves and the handler returns; the handler
\* does not look at whether the transport has written its reply
HttpReturn(i) ==
  /\ http.loaded
  /\ http.inv[i].pc = "handle"
  /\ http' = [http EXCEPT !.inv[i].pc = "done"]
  /\ UNCHANGED <<db, today, req, outcome, queries, proc, build>>

\* server.connect or transport.handleRequest rejects, before or after the
\* transport has written its reply; a rejected request is not answered by
\* the transport afterwards
HttpReject(i) ==
  /\ http.loaded
  /\ http.inv[i].pc \in {"connect", "handle"}
  /\ http' = [http EXCEPT !.inv[i] =
                [Catch(http.inv[i], "transport error") EXCEPT
                   !.transport = IF @ = "pending" THEN "failed" ELSE @]]
  /\ UNCHANGED <<db, today, req, outcome, queries, proc, build>>

\* the process is not the stdio server
NoProcess ==
  [state |-> "none", isMain |-> FALSE, imported |-> FALSE,
   handles |-> <<>>, code |-> "none"]

HttpInit ==
  /\ db = BaseStore
  /\ today = 1
  /\ req = [tool |-> "none"]
  /\ outcome = [kind |-> "none"]
  /\ queries = <<>>
  /\ proc = NoProcess
  /\ build = NoBuild
  /\ \E source, tmp, lock \in BOOLEAN, file \in DatabaseFiles :
       /\ file = "directory" => tmp
       /\ http = Deployment(source, tmp, lock, file)

HttpNext ==
  \/ \E i \in 1..MaxInvocations : HttpPreflight(i)
  \/ \E i \in 1..MaxInvocations : HttpInfo(i)
  \/ \E i \in 1..MaxInvocations : HttpDatabaseMissing(i)
  \/ \E i \in 1..MaxInvocations : HttpOpen(i)
  \/ \E i \in 1..MaxInvocations : HttpConnect(i)
  \/ \E i \in 1..MaxInvocations : HttpTransportReply(i)
  \/ \E i \in 1..MaxInvocations : HttpReturn(i)
  \/ \E i \in 1..MaxInvocations : HttpReject(i)

HttpSpec == HttpInit /\ [][HttpNext]_vars

\* ------------------------------------------------------------------------
\* The build script (scripts/build-db.ts)
\* ------------------------------------------------------------------------

\* In the store the script builds, codes, ids and domains are written as
\* strings, and a row keeps the columns its table's constraints and the
\* script's counts read; the long text columns are left out.

\* the database after the schema is created
EmptyStore ==
  [db_metadata |-> {}, trade_blocs |-> {}, sources |-> {}, agreements |-> {},
   provisions |-> {}, data_transfer_rules |-> {}, mutual_recognition |-> {},
   digital_trade_obligations |-> {}]

\* the ids of the three insertBloc.run calls
blocSeed == << "mercosur", "pacific_alliance", "prosur" >>

\* the ids of the four insertSource.run calls
sourceSeed ==
  << "mercosur-secretariat", "pacific-alliance-portal", "prosur-portal",
     "bilateral-agreements" >>

\* id and bloc_id of the ten insertAgreement.run calls
agreementSeed ==
  << <<"treaty-of-asuncion", "mercosur">>, <<"protocol-ouro-preto", "mercosur">>,
     <<"mercosur-digital-agenda", "mercosur">>, <<"mercosur-e-commerce", "mercosur">>,
     <<"mercosur-data-protection", "mercosur">>, <<"pa-additional-protocol", "pacific_alliance">>,
     <<"pa-digital-agenda", "pacific_alliance">>, <<"prosur-digital-declaration", "prosur">>,
     <<"mercosur-eu-association", "mercosur">>, <<"ace-35-mercosur-chile", "mercosur">> >>

\* the provisions of one list, as the loop binds them to insertProvision
Keyed(agreement_id, refs) ==
  [k \in 1..Len(refs) |-> [agreement_id |-> agreement_id, article_ref |-> refs[k]]]

\* the insertProvision.run calls of the nine loops, in program order: the
\* agreement of each list and the article references of its entries
provisionSeed ==
  Keyed("protocol-ouro-preto",
          << "1", "2", "3", "8", "9", "10", "14", "15", "16", "19",
             "34", "37", "40", "41" >>)
    \o Keyed("mercosur-digital-agenda",
          << "1", "2", "3", "4", "5", "6", "7", "8", "9", "10" >>)
    \o Keyed("mercosur-e-commerce",
          << "1", "2", "3", "4", "5", "6", "7", "8", "9", "10",
             "11", "12" >>)
    \o Keyed("mercosur-data-protection",
          << "1", "2", "3", "4", "5", "6", "7", "8", "9", "10" >>)
    \o Keyed("pa-additional-protocol",
          << "1.1", "1.2", "3.1", "3.4", "4.1", "8.1", "9.1", "10.1", "10.3", "13.1",
             "13.2", "13.4", "13.5", "14.1", "14.6", "17.1" >>)
    \o Keyed("pa-digital-agenda",
          << "1", "2", "3", "4", "5", "6", "7", "8" >>)
    \o Keyed("prosur-digital-declaration",
          << "1", "2", "3", "4", "5", "6", "7", "8", "9", "10" >>)
    \o Keyed("mercosur-eu-association",
          << "1", "2", "3", "4", "5", "6", "7", "8", "9", "10",
             "11", "12" >>)
    \o Keyed("ace-35-mercosur-chile",
          << "1", "2", "3", "5", "7", "9", "11", "13", "16", "18",
             "20", "22" >>)

\* a plausible slip: a pair is also listed in the opposite order
transferRules_WithReverse ==
  << <<"BR", "AR">>, <<"BR", "UY">>, <<"AR", "UY">>, <<"AR", "PY">>,
     <<"BR", "PY">>, <<"CL", "CO">>, <<"MX", "CO">>, <<"CL", "PE">>,
     <<"MX", "PE">>, <<"BR", "EU">>, <<"AR", "EU">>, <<"UY", "EU">>,
     <<"CL", "MX">>, <<"CO", "PE">>, <<"BR", "CL">>, <<"AR", "BR">> >>

\* source_country and dest_country of the entries of transferRules
transferRules ==
  << <<"BR", "AR">>, <<"BR", "UY">>, <<"AR", "UY">>, <<"AR", "PY">>,
     <<"BR", "PY">>, <<"CL", "CO">>, <<"MX", "CO">>, <<"CL", "PE">>,
     <<"MX", "PE">>, <<"BR", "EU">>, <<"AR", "EU">>, <<"UY", "EU">>,
     <<"CL", "MX">>, <<"CO", "PE">>, <<"BR", "CL">> >>

\* country_a, country_b, domain and agreement_id of the entries of
\* mutualRecEntries
mutualRecEntries ==
  << <<"BR", "AR", "customs_procedures", <<"treaty-of-asuncion">>>>,
     <<"BR", "UY", "customs_procedures", <<"treaty-of-asuncion">>>>,
     <<"AR", "UY", "customs_procedures", <<"treaty-of-asuncion">>>>,
     <<"AR", "PY", "customs_procedures", <<"treaty-of-asuncion">>>>,
     <<"BR", "PY", "customs_procedures", <<"treaty-of-asuncion">>>>,
     <<"UY", "PY", "customs_procedures", <<"treaty-of-asuncion">>>>,
     <<"BR", "AR", "product_standards", <<"protocol-ouro-preto">>>>,
     <<"BR", "UY", "product_standards", <<"protocol-ouro-preto">>>>,
     <<"AR", "UY", "product_standards", <<"protocol-ouro-preto">>>>,
     <<"CL", "CO", "product_standards", <<"pa-additional-protocol">>>>,
     <<"CL", "MX", "product_standards", <<"pa-additional-protocol">>>>,
     <<"CO", "PE", "product_standards", <<"pa-additional-protocol">>>>,
     <<"MX", "PE", "product_standards", <<"pa-additional-protocol">>>>,
     <<"BR", "AR", "professional_qualifications", NULL>>,
     <<"BR", "UY", "professional_qualifications", NULL>>,
     <<"AR", "UY", "professional_qualifications", NULL>>,
     <<"BR", "AR", "data_protection", <<"mercosur-data-protection">>>>,
     <<"BR", "UY", "data_protection", <<"mercosur-data-protection">>>>,
     <<"AR", "UY", "data_protection", <<"mercosur-data-protection">>>>,
     <<"CL", "CO", "data_protection", <<"pa-digital-agenda">>>>,
     <<"BR", "CL", "customs_procedures", <<"ace-35-mercosur-chile">>>>,
     <<"AR", "CL", "customs_procedures", <<"ace-35-mercosur-chile">>>> >>

\* agreement_id and countries of the entries of digitalObligations
digitalObligations ==
  << <<"mercosur-digital-agenda", "BR,AR,UY,PY">>,
     <<"mercosur-digital-agenda", "BR,AR,UY,PY">>,
     <<"mercosur-digital-agenda", "BR,AR,UY,PY">>,
     <<"mercosur-digital-agenda", "BR,AR,UY,PY">>,
     <<"mercosur-digital-agenda", "BR,AR,UY,PY">>,
     <<"mercosur-e-commerce", "BR,AR,UY,PY">>,
     <<"mercosur-e-commerce", "BR,AR,UY,PY">>,
     <<"mercosur-e-commerce", "BR,AR,UY,PY">>,
     <<"mercosur-e-commerce", "BR,AR,UY,PY">>,
     <<"mercosur-e-commerce", "BR,AR,UY,PY">>,
     <<"pa-additional-protocol", "CL,CO,MX,PE">>,
     <<"pa-additional-protocol", "CL,CO,MX,PE">>,
     <<"pa-additional-protocol", "CL,CO,MX,PE">>,
     <<"pa-additional-protocol", "CL,CO,MX,PE">>,
     <<"pa-additional-protocol", "CL,CO,MX,PE">>,
     <<"pa-digital-agenda", "CL,CO,MX,PE">>,
     <<"pa-digital-agenda", "CL,CO,MX,PE">>,
     <<"pa-digital-agenda", "CL,CO,MX,PE">>,
     <<"prosur-digital-declaration", "AR,BR,CL,CO,EC,GY,PE,PY,SR,UY">>,
     <<"prosur-digital-declaration", "AR,BR,CL,CO,EC,GY,PE,PY,SR,UY">>,
     <<"prosur-digital-declaration", "AR,BR,CL,CO,EC,GY,PE,PY,SR,UY">>,
     <<"prosur-digital-declaration", "AR,BR,CL,CO,EC,GY,PE,PY,SR,UY">>,
     <<"mercosur-eu-association", "BR,AR,UY,PY,EU">>,
     <<"mercosur-eu-association", "BR,AR,UY,PY,EU">>,
     <<"mercosur-eu-association", "BR,AR,UY,PY,EU">> >>

\* what data/seed/*.json may hold: no file, or a file for the Treaty of
\* Asuncion whose third provision repeats the key of the first
SeedFiles ==
  { <<>>,
    << [agreement_id |-> "treaty-of-asuncion", article_ref |-> "1"],
       [agreement_id |-> "treaty-of-asuncion", article_ref |-> "2"],
       [agreement_id |-> "treaty-of-asuncion", article_ref |-> "1"] >> }

\* the script moves to the next call of a loop, or to the next loop
Advance(b, n, next) ==
  IF b.k < n THEN [b EXCEPT !.k = b.k + 1] ELSE [b EXCEPT !.phase = next, !.k = 1]

\* a statement throws outside any try block: the script ends
Abort(b) == [b EXCEPT !.phase = "failed"]

\* UNIQUE(agreement_id, article_ref)
ProvisionKeyTaken(store, p) ==
  \E r \in store.provisions :
    r.agreement_id = p.agreement_id /\ r.article_ref = p.article_ref

\* the provisions row insertProvision adds (id by AUTOINCREMENT)
ProvisionRow(store, p) ==
  [id |-> Cardinality(store.provisions) + 1,
   agreement_id |-> p.agreement_id, article_ref |-> p.article_ref]

InsertBloc ==
  /\ build.running /\ build.phase = "blocs"
  /\ LET id == blocSeed[build.k]
     IN  IF \E r \in db.trade_blocs : r.id = id
         THEN build' = Abort(build) /\ db' = db
         ELSE /\ db' = [db EXCEPT !.trade_blocs = @ \cup { [id |-> id] }]
              /\ build' = Advance(build, Len(blocSeed), "sources")
  /\ UNCHANGED <<today, req, outcome, queries, proc, http>>

InsertSource ==
  /\ build.running /\ build.phase = "sources"
  /\ LET id == sourceSeed[build.k]
     IN  IF \E r \in db.sources : r.id = id
         THEN build' = Abort(build) /\ db' = db
         ELSE /\ db' = [db EXCEPT !.sources = @ \cup
                          { [id |-> id, last_fetched |-> toIsoDate(today),
                             last_updated |-> toIsoDate(today), item_count |-> 0] }]
              /\ build' = Advance(build, Len(sourceSeed), "agreements")
  /\ UNCHANGED <<today, req, outcome, queries, proc, http>>

InsertAgreement ==
  /\ build.running /\ build.phase = "agreements"
  /\ LET a == agreementSeed[build.k]
     IN  IF \/ \E r \in db.agreements : r.id = a[1]
            \/ ~\E b \in db.trade_blocs : b.id = a[2]
         THEN build' = Abort(build) /\ db' = db
         ELSE /\ db' = [db EXCEPT !.agreements = @ \cup
                          { [id |-> a[1], bloc_id |-> a[2],
                             last_updated |-> toIsoDate(today)] }]
              /\ build' = Advance(build, Len(agreementSeed),
                                  IF Len(build.seed) = 0 THEN "provisions" ELSE "seed")
  /\ UNCHANGED <<today, req, outcome, queries, proc, http>>

\* a provision of a seed file: a duplicate, or a provision of an agreement
\* that is not stored, is skipped by the catch block
LoadSeedProvision ==
  /\ build.running /\ build.phase = "seed"
  /\ LET p == build.seed[build.k]
     IN  /\ db' = IF \/ ProvisionKeyTaken(db, p)
                     \/ ~\E a \in db.agreements : a.id = p.agreement_id
                  THEN db
                  ELSE [db EXCEPT !.provisions = @ \cup { ProvisionRow(db, p) }]
         /\ build' = Advance(build, Len(build.seed), "provisions")
  /\ UNCHANGED <<today, req, outcome, queries, proc, http>>

InsertProvision ==
  /\ build.running /\ build.phase = "provisions"
  /\ LET p == provisionSeed[build.k]
     IN  IF \/ ProvisionKeyTaken(db, p)
            \/ ~\E a \in db.agreements : a.id = p.agreement_id
         THEN build' = Abort(build) /\ db' = db
         ELSE /\ db' = [db EXCEPT !.provisions = @ \cup { ProvisionRow(db, p) }]
              /\ build' = Advance(build, Len(provisionSeed), "transfers")
  /\ UNCHANGED <<today, req, outcome, queries, proc, http>>

\* UNIQUE(source_country, dest_country) is the only constraint on the pair
InsertTransfer ==
  /\ build.running /\ build.phase = "transfers"
  /\ LET rule == transferRules[build.k]
     IN  IF \E r \in db.data_transfer_rules :
              r.source_country = rule[1] /\ r.dest_country = rule[2]
         THEN build' = Abort(build) /\ db' = db
         ELSE /\ db' = [db EXCEPT !.data_transfer_rules = @ \cup
                          { [id |-> Cardinality(db.data_transfer_rules) + 1,
                             source_country |-> rule[1], dest_country |-> rule[2]] }]
              /\ build' = Advance(build, Len(transferRules), "recognition")
  /\ UNCHANGED <<today, req, outcome, queries, proc, http>>

\* mutual_recognition has its primary key and the reference to agreements
InsertMutualRec ==
  /\ build.running /\ build.phase = "recognition"
  /\ LET entry == mutualRecEntries[build.k]
     IN  IF entry[4] # NULL /\ ~\E a \in db.agreements : <<a.id>> = entry[4]
         THEN build' = Abort(build) /\ db' = db
         ELSE /\ db' = [db EXCEPT !.mutual_recognition = @ \cup
                          { [id |-> Cardinality(db.mutual_recognition) + 1,
                             country_a |-> entry[1], country_b |-> entry[2],
                             domain |-> entry[3], agreement_id |-> entry[4]] }]
              /\ build' = Advance(build, Len(mutualRecEntries), "obligations")
  /\ UNCHANGED <<today, req, outcome, queries, proc, http>>

InsertDigitalObligation ==
  /\ build.running /\ build.phase = "obligations"
  /\ LET ob == digitalObligations[build.k]
     IN  IF ~\E a \in db.agreements : a.id = ob[1]
         THEN build' = Abort(build) /\ db' = db
         ELSE /\ db' = [db EXCEPT !.digital_trade_obligations = @ \cup
                          { [id |-> Cardinality(db.digital_trade_obligations) + 1,
                             agreement_id |-> ob[1], countries |-> ob[2]] }]
              /\ build' = Advance(build, Len(digitalObligations), "counts")
  /\ UNCHANGED <<today, req, outcome, queries, proc, http>>

\* the number the k-th UPDATE writes into item_count
ItemCount(store, k) ==
  IF k <= Len(blocSeed)
  THEN Cardinality({ a \in store.agreements : a.bloc_id = blocSeed[k] })
  ELSE Cardinality(store.data_transfer_rules) + Cardinality(store.mutual_recognition)

\* UPDATE sources SET item_count = ? WHERE id = ?
UpdateSourceCount ==
  /\ build.running /\ build.phase = "counts"
  /\ db' = [db EXCEPT !.sources =
              { IF r.id = sourceSeed[build.k]
                THEN [r EXCEPT !.item_count = ItemCount(db, build.k)]
                ELSE r : r \in @ }]
  /\ build' = Advance(build, Len(sourceSeed), "metadata")
  /\ UNCHANGED <<today, req, outcome, queries, proc, http>>

\* the keys and values of the four insertMeta.run calls
metaSeed ==
  << <<"schema_version", "1.0">>, <<"mcp_name", "mercosur-trade-mcp">>,
     <<"category", "domain_intelligence">>, <<"build_date", toIsoDate(today)>> >>

\* INSERT OR REPLACE INTO db_metadata
InsertMeta ==
  /\ build.running /\ build.phase = "metadata"
  /\ LET m == metaSeed[build.k]
     IN  db' = [db EXCEPT !.db_metadata =
                  { r \in @ : r.key # m[1] } \cup { [key |-> m[1], value |-> m[2]] }]
  /\ build' = Advance(build, Len(metaSeed), "finalize")
  /\ UNCHANGED <<today, req, outcome, queries, proc, http>>

\* the full-text index is rebuilt, the file is vacuumed and closed
Finalize ==
  /\ build.running /\ build.phase = "finalize"
  /\ build' = [build EXCEPT !.phase = "done"]
  /\ UNCHANGED <<db, today, req, outcome, queries, proc, http>>

BuildInit ==
  /\ db = EmptyStore
  /\ today \in 1..Len(Dates)
  /\ req = [tool |-> "none"]
  /\ outcome = [kind |-> "none"]
  /\ queries = <<>>
  /\ proc = NoProcess
  /\ http = NoDeployment
  /\ \E seed \in SeedFiles :
       build = [running |-> TRUE, phase |-> "blocs", k |-> 1, seed |-> seed]

BuildNext ==
  \/ InsertBloc
  \/ InsertSource
  \/ InsertAgreement
  \/ LoadSeedProvision
  \/ InsertProvision
  \/ InsertTransfer
  \/ InsertMutualRec
  \/ InsertDigitalObligation
  \/ UpdateSourceCount
  \/ InsertMeta
  \/ Finalize

BuildSpec == BuildInit /\ [][BuildNext]_vars

\* ------------------------------------------------------------------------
\* The query string handed to MATCH (escapeFTS5Query on its own)
\* ------------------------------------------------------------------------

\* characters of a query: a letter, a space, two of the characters the
\* function replaces, and two characters of the FTS5 syntax it leaves alone
QueryAlphabet == {"a", " ", "(", "*", "+", "\""}

\* the strings of at most n characters
RECURSIVE QueriesUpTo(_)
QueriesUpTo(n) ==
  IF n = 0 THEN { <<>> }
  ELSE QueriesUpTo(n - 1)
         \cup { <<c>> \o q : c \in QueryAlphabet,
                             q \in { x \in QueriesUpTo(n - 1) : Len(x) = n - 1 } }

\* const ftsQuery = escapeFTS5Query(input.query)
Escape ==
  /\ req.tool = "escapeFTS5Query"
  /\ outcome.kind = "none"
  /\ outcome' = [kind |-> "return", value |-> escapeFTS5Query(req.args.query)]
  /\ UNCHANGED <<db, today, req, queries, proc, http, build>>

EscapeInit ==
  /\ db = BaseStore
  /\ today = 1
  /\ \E query \in QueriesUpTo(MaxQueryLen) :
       req = [tool |-> "escapeFTS5Query", args |-> [query |-> query]]
  /\ outcome = [kind |-> "none"]
  /\ queries = <<>>
  /\ proc = NoProcess
  /\ http = NoDeployment
  /\ build = NoBuild

EscapeNext == Escape

EscapeSpec == EscapeInit /\ [][EscapeNext]_vars

\* ------------------------------------------------------------------------
\* Properties of get_data_transfer_rules
\* ------------------------------------------------------------------------

\* a call of the tool has returned a response
Returned(tool) == req.tool = tool /\ outcome.kind = "return"

\* a call of get_data_transfer_rules with both codes has returned
TransferCall ==
  /\ Returned("get_data_transfer_rules")
  /\ Has(req.args, "source_country")
  /\ Has(req.args, "dest_country")

\* the stored rows of the ordered pair (s, d)
StoredTransfer(s, d) ==
  { r \in db.data_transfer_rules : r.source_country = s /\ r.dest_country = d }

\* the response to the same call with the two codes exchanged
SwappedTransfer ==
  getDataTransferRules(db, today,
    [source_country |-> req.args.dest_country,
     dest_country   |-> req.args.source_country]).outcome.value

\* both directions find the same row and exactly one reports a reversed lookup
SymmetricTransfer ==
  /\ outcome.value.found
  /\ SwappedTransfer.found
  /\ outcome.value.rules = SwappedTransfer.rules
  /\ outcome.value.reversed_lookup # SwappedTransfer.reversed_lookup

\* C1 as stated: for all codes A and B such that data_transfer_rules stores a
\* row for the pair in either order, the calls (A, B) and (B, A) both return
\* found: true with the same rules row and exactly one of them has
\* reversed_lookup: true.
C1_Original ==
  (/\ TransferCall
   /\ StoredTransfer(req.args.source_country, req.args.dest_country)
        \cup StoredTransfer(req.args.dest_country, req.args.source_country) # {})
  => SymmetricTransfer

\* C1 amended: for all codes A and B whose uppercased forms UA and UB differ
\* and for which data_transfer_rules stores a row for exactly one of the
\* ordered pairs (UA, UB) and (UB, UA), the calls (A, B) and (B, A) both
\* return found: true with that same row and exactly one of them has
\* reversed_lookup: true.
C1_SingleRowSymmetric ==
  TransferCall =>
    LET ua == toUpperCase(req.args.source_country)
        ub == toUpperCase(req.args.dest_country)
    IN  (/\ ua # ub
         /\ (StoredTransfer(ua, ub) # {}) # (StoredTransfer(ub, ua) # {}))
        => SymmetricTransfer

\* a lower-case call finds, through the reversed lookup, the one row stored
\* for the pair
C1_Witness ==
  /\ TransferCall
  /\ req.args.source_country = <<"e","U">>
  /\ req.args.dest_country = <<"a","r">>
  /\ StoredTransfer(<<"A","R">>, <<"E","U">>) # {}
  /\ StoredTransfer(<<"E","U">>, <<"A","R">>) = {}
  /\ outcome.value.found
  /\ outcome.value.reversed_lookup

\* C2: get_data_transfer_rules returns at most one row and prefers the
\* requested direction: a stored row (SRC, DST) is returned with
\* reversed_lookup false even when (DST, SRC) is stored too; the row
\* (DST, SRC) is returned only when no row (SRC, DST) exists, and
\* reversed_lookup is true exactly then; with neither row nothing is returned.
C2_PrefersRequestedDirection ==
  TransferCall =>
    LET src == toUpperCase(req.args.source_country)
        dst == toUpperCase(req.args.dest_country)
        v   == outcome.value
    IN  /\ StoredTransfer(src, dst) # {} =>
             /\ v.found
             /\ v.rules \in StoredTransfer(src, dst)
             /\ v.reversed_lookup = FALSE
        /\ (StoredTransfer(src, dst) = {} /\ StoredTransfer(dst, src) # {}) =>
             /\ v.found
             /\ v.rules \in StoredTransfer(dst, src)
             /\ v.reversed_lookup = TRUE
        /\ (StoredTransfer(src, dst) = {} /\ StoredTransfer(dst, src) = {}) =>
             /\ ~v.found
             /\ "rules" \notin DOMAIN v
             /\ "reversed_lookup" \notin DOMAIN v

\* both directions of a pair are stored and the call gets the requested one
C2_Witness ==
  /\ TransferCall
  /\ toUpperCase(req.args.source_country) # toUpperCase(req.args.dest_country)
  /\ StoredTransfer(toUpperCase(req.args.source_country),
                    toUpperCase(req.args.dest_country)) # {}
  /\ StoredTransfer(toUpperCase(req.args.dest_country),
                    toUpperCase(req.args.source_country)) # {}
  /\ outcome.value.found
  /\ outcome.value.reversed_lookup = FALSE
  /\ outcome.value.rules.source_country = toUpperCase(req.args.source_country)

\* the display name the contract gives a code: the mapped country name, or
\* the uppercased code when the mapping does not hold it
DisplayName(code) ==
  LET u == Str(toUpperCase(code))
  IN  IF u \in {"AR","BO","BR","CL","CO","EC","GY","MX","PE","PY","SR","UY","VE"}
      THEN COUNTRY_NAMES[u]
      ELSE u

\* C3: for all codes A and B with no data-transfer row stored in either
\* order, the calls (A, B) and (B, A) both return found: false without a
\* rules field, and each message names the display names of A and B.
C3_NotFoundNamesBoth ==
  TransferCall =>
    LET a == req.args.source_country
        b == req.args.dest_country
        v == outcome.value
        w == SwappedTransfer
    IN  (StoredTransfer(toUpperCase(a), toUpperCase(b)) = {}
         /\ StoredTransfer(toUpperCase(b), toUpperCase(a)) = {})
        => /\ v.found = FALSE
           /\ w.found = FALSE
           /\ "rules" \notin DOMAIN v
           /\ DOMAIN v = DOMAIN w
           /\ v.source_country_name = DisplayName(a)
           /\ v.dest_country_name = DisplayName(b)
           /\ v.message = "No data transfer rules found between "
                            \o DisplayName(a) \o " and " \o DisplayName(b) \o "."
           /\ w.message = "No data transfer rules found between "
                            \o DisplayName(b) \o " and " \o DisplayName(a) \o "."

\* a pair without a stored row, one code mapped and one not, is not found
C3_Witness ==
  /\ TransferCall
  /\ req.args.source_country = <<"a","r">>
  /\ req.args.dest_country = <<"Z","Z">>
  /\ db.data_transfer_rules # {}
  /\ outcome.value.found = FALSE
  /\ outcome.value.message = "No data transfer rules found between Argentina and ZZ."

\* ------------------------------------------------------------------------
\* Properties of get_mutual_recognition
\* ------------------------------------------------------------------------

\* a call of get_mutual_recognition with both codes has returned
RecognitionCall ==
  /\ Returned("get_mutual_recognition")
  /\ Has(req.args, "country_a")
  /\ Has(req.args, "country_b")

\* the rows a response of get_mutual_recognition carries
AgreementsOf(v) == IF "agreements" \in DOMAIN v THEN v.agreements ELSE <<>>

\* the elements of a sequence
Range(seq) == { seq[i] : i \in 1..Len(seq) }

\* the call with the two codes exchanged and the same domain argument
SwappedRecognitionArgs ==
  [f \in DOMAIN req.args |->
     IF f = "country_a" THEN req.args.country_b
     ELSE IF f = "country_b" THEN req.args.country_a
     ELSE req.args[f]]

\* C4: multi-row resolution is order-independent: for every store, all codes
\* A and B and every domain argument (supplied or absent), the calls
\* (A, B, domain) and (B, A, domain) return the same set of rows, the same
\* count and the same found value.
C4_OrderIndependent ==
  RecognitionCall =>
    \A rows \in MutualRecognitionRows(db, SwappedRecognitionArgs) :
      LET v == outcome.value
          w == getMutualRecognition(db, today, SwappedRecognitionArgs, rows).outcome.value
      IN  /\ w.found = v.found
          /\ Range(AgreementsOf(w)) = Range(AgreementsOf(v))
          /\ ("count" \in DOMAIN v) = ("count" \in DOMAIN w)
          /\ "count" \in DOMAIN v => v.count = w.count

\* rows stored in both orders of a pair are returned to a call
C4_Witness ==
  /\ RecognitionCall
  /\ toUpperCase(req.args.country_a) # toUpperCase(req.args.country_b)
  /\ outcome.value.found
  /\ \E r, t \in Range(outcome.value.agreements) :
       r.country_a = t.country_b /\ r.country_b = t.country_a

\* C5 as stated: whenever a domain argument is supplied, every returned row
\* has a stored domain exactly equal to the supplied value.
C5_DomainFilterExact ==
  (RecognitionCall /\ Has(req.args, "domain")) =>
    \A r \in Range(AgreementsOf(outcome.value)) : r.domain = req.args.domain

\* C6: without a domain the call (A, B) returns exactly the stored rows whose
\* (country_a, country_b) is (A, B) or (B, A), rows of the second order also
\* when rows of the first exist, each row once; count is the number of rows
\* returned and found is true exactly when there is at least one.
C6_UnionOfBothOrders ==
  (RecognitionCall /\ ~Has(req.args, "domain")) =>
    LET a      == toUpperCase(req.args.country_a)
        b      == toUpperCase(req.args.country_b)
        stored == { m \in db.mutual_recognition :
                      \/ (m.country_a = a /\ m.country_b = b)
                      \/ (m.country_a = b /\ m.country_b = a) }
        rows   == AgreementsOf(outcome.value)
    IN  /\ { r.id : r \in Range(rows) } = { m.id : m \in stored }
        /\ \A r \in Range(rows) : \E m \in stored :
             /\ m.id = r.id
             /\ m.country_a = r.country_a /\ m.country_b = r.country_b
             /\ m.domain = r.domain /\ m.agreement_id = r.agreement_id
        /\ \A i, j \in 1..Len(rows) : rows[i].id = rows[j].id => i = j
        /\ outcome.value.found = (Cardinality(stored) >= 1)
        /\ outcome.value.found => outcome.value.count = Len(rows)
        /\ outcome.value.found => outcome.value.count = Cardinality(stored)

\* the call returns a row of the first order together with one of the second
C6_Witness ==
  /\ RecognitionCall
  /\ ~Has(req.args, "domain")
  /\ outcome.value.found
  /\ outcome.value.count = 2
  /\ \E r, t \in Range(outcome.value.agreements) :
       /\ r.country_a = toUpperCase(req.args.country_a)
       /\ r.country_b = toUpperCase(req.args.country_b)
       /\ r.country_a # r.country_b
       /\ t.country_a = r.country_b
       /\ t.country_b = r.country_a

\* ------------------------------------------------------------------------
\* Properties of check_digital_trade_obligations
\* ------------------------------------------------------------------------

\* a call of check_digital_trade_obligations has returned
ObligationsCall == Returned("check_digital_trade_obligations")

\* a call with a list of at least one code has returned
ScanCall ==
  /\ ObligationsCall
  /\ Has(req.args, "countries")
  /\ Len(req.args.countries) > 0

\* the rows a response of check_digital_trade_obligations carries
ObligationsOf(v) == IF "obligations" \in DOMAIN v THEN v.obligations ELSE <<>>

\* the rows the tool returns for a list of codes (in whichever order)
ObligationsFor(list) ==
  LET rows == CHOOSE r \in ObligationRows(db, [countries |-> list]) : TRUE
  IN  Range(ObligationsOf(
        checkDigitalTradeObligations(db, today, [countries |-> list], rows).outcome.value))

\* C7: the rows returned for a list of codes are the union of the rows
\* returned for each code alone, each row once even when it matches several
\* codes or a code is repeated; so the rows returned for a list with further
\* codes include the rows returned for the list.
C7_UnionOverCodes ==
  ScanCall =>
    LET list == req.args.countries
        rows == ObligationsOf(outcome.value)
    IN  /\ Range(rows) = UNION { ObligationsFor(<<list[k]>>) : k \in 1..Len(list) }
        /\ \A i, j \in 1..Len(rows) : rows[i].id = rows[j].id => i = j
        /\ \A c \in ScanCodes : Range(rows) \subseteq ObligationsFor(Append(list, c))

\* two different codes of the list match the same row, which is returned once
C7_Witness ==
  /\ ScanCall
  /\ Len(req.args.countries) = 2
  /\ req.args.countries[1] # req.args.countries[2]
  /\ ObligationsFor(<<req.args.countries[1]>>) # {}
  /\ ObligationsFor(<<req.args.countries[1]>>) = ObligationsFor(<<req.args.countries[2]>>)
  /\ outcome.value.found
  /\ outcome.value.count = Cardinality(ObligationsFor(<<req.args.countries[1]>>))

\* str holds code as a contiguous substring, character for character
Contains(str, code) ==
  \E i \in 1..(Len(str) + 1) :
    /\ i + Len(code) - 1 <= Len(str)
    /\ \A k \in 1..Len(code) : str[i + k - 1] = code[k]

\* C8 as stated: a row is returned if and only if its stored countries field
\* contains at least one of the uppercased query codes as a contiguous
\* substring, for every query code string; codes that occur in no stored
\* field give found: false.
C8_SubstringIff ==
  ScanCall =>
    LET list     == req.args.countries
        matching == { o \in db.digital_trade_obligations :
                        \E k \in 1..Len(list) :
                          Contains(o.countries, toUpperCase(list[k])) }
    IN  /\ { r.id : r \in Range(ObligationsOf(outcome.value)) }
             = { o.id : o \in matching }
        /\ matching = {} => outcome.value.found = FALSE

\* C9: called with an empty or absent countries list the tool returns
\* found: false with the message 'At least one country code is required.' in
\* every store state, and issues no query against the store.
C9_EmptyListRejected ==
  (/\ ObligationsCall
   /\ (~Has(req.args, "countries") \/ req.args.countries = <<>>))
  => /\ outcome.value.found = FALSE
     /\ outcome.value.message = "At least one country code is required."
     /\ DOMAIN outcome.value = {"found", "message", "_meta"}
     /\ queries = <<>>

\* the empty list is rejected although the store holds obligations
C9_Witness ==
  /\ ObligationsCall
  /\ Has(req.args, "countries")
  /\ req.args.countries = <<>>
  /\ db.digital_trade_obligations # {}
  /\ outcome.value.message = "At least one country code is required."
  /\ queries = <<>>

\* ------------------------------------------------------------------------
\* Absence
\* ------------------------------------------------------------------------

\* every argument the call carries is a string (none is left out, but for
\* the optional domain)
StringArguments ==
  \/ (/\ req.tool = "get_data_transfer_rules"
      /\ Has(req.args, "source_country")
      /\ Has(req.args, "dest_country"))
  \/ (/\ req.tool = "get_mutual_recognition"
      /\ Has(req.args, "country_a")
      /\ Has(req.args, "country_b"))
  \/ (/\ req.tool = "check_digital_trade_obligations"
      /\ Has(req.args, "countries"))
  \/ req.tool = "get_provision"

\* the store holds no record that the call in progress asks for: no rule for
\* the pair of codes in either direction, no recognition row for the pair
\* (of the supplied domain, when one is supplied), no obligation whose
\* countries field contains one of the uppercased codes, no provision stored
\* under the agreement id and article
NoMatchingRecord ==
  \/ /\ req.tool = "get_data_transfer_rules"
     /\ StoredTransfer(toUpperCase(req.args.source_country),
                       toUpperCase(req.args.dest_country)) = {}
     /\ StoredTransfer(toUpperCase(req.args.dest_country),
                       toUpperCase(req.args.source_country)) = {}
  \/ /\ req.tool = "get_mutual_recognition"
     /\ ~ \E m \in db.mutual_recognition :
            /\ << m.country_a, m.country_b >>
                 \in { << toUpperCase(req.args.country_a), toUpperCase(req.args.country_b) >>,
                       << toUpperCase(req.args.country_b), toUpperCase(req.args.country_a) >> }
            /\ Has(req.args, "domain") => m.domain = req.args.domain
  \/ /\ req.tool = "check_digital_trade_obligations"
     /\ ~ \E o \in db.digital_trade_obligations, k \in 1..Len(req.args.countries) :
            Contains(o.countries, toUpperCase(req.args.countries[k]))
  \/ /\ req.tool = "get_provision"
     /\ ~ \E q \in db.provisions :
            /\ q.agreement_id = req.args.agreement_id
            /\ q.article_ref = req.args.article

\* C10 as stated: absence is never an error: for any store and any string
\* arguments the four lookup tools return normally, and when no matching
\* record exists the result has found: false and a non-empty explanatory
\* message.
C10_AbsenceIsNotAnError ==
  (req.tool # "none" /\ StringArguments) =>
    /\ outcome.kind = "return"
    /\ NoMatchingRecord =>
         /\ outcome.value.found = FALSE
         /\ "message" \in DOMAIN outcome.value
         /\ outcome.value.message # ""

\* ------------------------------------------------------------------------
\* Properties of the metadata block
\* ------------------------------------------------------------------------

\* callTool has returned the response of one of the nine tools
ToolReturned == req.tool \in DispatchedNames /\ outcome.kind = "return"

\* the names under which a response carries a metadata block
MetaFields(v) == DOMAIN v \cap {"_meta", "_metadata"}

\* C11 as stated: every response of every one of the nine tools, on found and
\* not-found paths alike, carries the metadata block, under the same field
\* name and with the same fields (disclaimer, data age, server, version) in
\* every tool.
C11_SameMetadataField ==
  ToolReturned =>
    /\ Cardinality(MetaFields(outcome.value)) = 1
    /\ \A f \in MetaFields(outcome.value) :
         /\ DOMAIN outcome.value[f] = {"disclaimer", "data_age", "server", "version"}
         /\ outcome.value[f].disclaimer # ""
    /\ MetaFields(outcome.value) = MetaFields(about(db, today).outcome.value)

\* C12 as stated: the responses of search_agreements, get_provision,
\* get_data_transfer_rules, get_mutual_recognition and about each have a
\* defined _metadata field, and for search_agreements that field has a
\* non-empty disclaimer.
C12_MetadataFieldDefined ==
  (/\ ToolReturned
   /\ req.tool \in {"search_agreements", "get_provision", "get_data_transfer_rules",
                    "get_mutual_recognition", "about"})
  => /\ "_metadata" \in DOMAIN outcome.value
     /\ req.tool = "search_agreements" => outcome.value._metadata.disclaimer # ""

\* ------------------------------------------------------------------------
\* Properties of search_agreements
\* ------------------------------------------------------------------------

\* a call of search_agreements with a query string is in progress
SearchCall == req.tool = "search_agreements" /\ Has(req.args, "query")

\* a call of search_agreements has returned a response
SearchReturned == SearchCall /\ outcome.kind = "return"

\* the query holds no letter and no digit (the empty query among them)
SpecialOnly(query) == \A i \in 1..Len(query) : ~IsAlnum(query[i])

\* C13 as stated: search_agreements called with an empty query string, or
\* with a query made only of special characters, returns normally with count
\* 0 and a message field, instead of raising an error or passing the query to
\* the full-text engine.
C13_CleanMessageForEmptyQuery ==
  (SearchCall /\ SpecialOnly(req.args.query)) =>
    /\ outcome.kind = "return"
    /\ outcome.value.count = 0
    /\ "message" \in DOMAIN outcome.value
    /\ queries = <<>>

\* the limit the contract gives an argument: the integer part of a finite
\* number, raised to 1 and capped at 50, and 10 for any other argument
ContractLimit(input) ==
  IF Has(input, "limit") /\ input.limit.kind = "number"
  THEN LET t     == input.limit.tenths
           whole == CHOOSE n \in -100..100 :
                      \/ t >= 0 /\ 10 * n <= t /\ t < 10 * n + 10
                      \/ t < 0 /\ 10 * n - 10 < t /\ t <= 10 * n
       IN  IF whole < 1 THEN 1 ELSE IF whole > 50 THEN 50 ELSE whole
  ELSE 10

\* C14: for every limit argument (absent, non-finite, fractional, zero,
\* negative or above 50) search_agreements works with clampLimit(limit), the
\* integer part of the value clamped to 1..50 or the default 10, returns at
\* most that many results, and count equals the number of results returned.
C14_AtMostLimit ==
  SearchReturned =>
    /\ clampLimit(LimitOf(req.args)) = ContractLimit(req.args)
    /\ \A rows \in SearchRows(db, req.args) : Len(rows) <= ContractLimit(req.args)
    /\ Len(outcome.value.results) <= ContractLimit(req.args)
    /\ outcome.value.count = Len(outcome.value.results)

\* two provisions match and the fractional limit 1.9 lets one through
C14_Witness ==
  /\ SearchReturned
  /\ Has(req.args, "limit")
  /\ req.args.limit = [kind |-> "number", tenths |-> 19]
  /\ ~Has(req.args, "topic")
  /\ ~Has(req.args, "countries")
  /\ Cardinality(SearchMatches(db, req.args,
                   Fts5Parse(escapeFTS5Query(req.args.query)).phrases)) = 2
  /\ outcome.value.count = 1

\* C15 as stated: every row returned by search_agreements with a topic
\* argument has a stored topic equal to that argument, and every row returned
\* with a non-empty countries argument has a parties field containing at
\* least one of the uppercased country codes.
C15_FiltersHold ==
  SearchReturned =>
    /\ Has(req.args, "topic") =>
         \A i \in 1..Len(outcome.value.results) :
           outcome.value.results[i].topic = req.args.topic
    /\ (Has(req.args, "countries") /\ req.args.countries # <<>>) =>
         \A i \in 1..Len(outcome.value.results) :
           \E k \in 1..Len(req.args.countries) :
             Contains(outcome.value.results[i].parties,
                      toUpperCase(req.args.countries[k]))

\* the stored provisions that match the query, the topic and the country
\* filter of the call
FilteredMatches ==
  { r \in SearchMatches(db, req.args,
                        Fts5Parse(escapeFTS5Query(req.args.query)).phrases) :
      CountryFilter(req.args, SearchRow(db, r)) }

\* C27 as stated: search_agreements applies the country filter to the full
\* match set before truncating to the limit: if k provisions match the query,
\* the topic and the country filter, the response contains
\* min(k, clampLimit(limit)) results, namely the best-ranked of those k.
C27_FilterBeforeLimit ==
  (SearchReturned /\ HasCountries(req.args)) =>
    LET phrases == Fts5Parse(escapeFTS5Query(req.args.query)).phrases
        K       == FilteredMatches
        n       == clampLimit(LimitOf(req.args))
    IN  /\ outcome.value.count = (IF Cardinality(K) < n THEN Cardinality(K) ELSE n)
        /\ \E o \in Orderings(K, ByRank(db, phrases, K)) :
             outcome.value.results =
               [i \in 1..Len(Take(o, n)) |-> SearchRow(db, o[i])]

\* ------------------------------------------------------------------------
\* Properties of get_provision
\* ------------------------------------------------------------------------

\* the stored provisions whose key equals the arguments of the call
KeyedProvisions ==
  { q \in db.provisions :
      q.agreement_id = req.args.agreement_id /\ q.article_ref = req.args.article }

\* the response is found: true with the provision q
FoundProvision(q) ==
  /\ outcome.value.found = TRUE
  /\ "message" \notin DOMAIN outcome.value
  /\ outcome.value.provision.id = q.id
  /\ outcome.value.provision.agreement_id = req.args.agreement_id
  /\ outcome.value.provision.article_ref = req.args.article
  /\ outcome.value.provision.content = q.content

\* the response is found: false with a message naming both arguments
ProvisionNotFound ==
  /\ outcome.value.found = FALSE
  /\ "provision" \notin DOMAIN outcome.value
  /\ outcome.value.message =
       "No provision found for article \"" \o Str(req.args.article)
         \o "\" in agreement \"" \o Str(req.args.agreement_id) \o "\"."

\* C16: get_provision returns found: true with the single provision whose
\* stored agreement_id and article_ref equal the arguments exactly (no case
\* or whitespace normalization), and found: false with a message naming both
\* arguments whenever no such provision exists, the case of an unknown
\* agreement id included.
C16_ExactKey ==
  Returned("get_provision") =>
    /\ Cardinality(KeyedProvisions) <= 1
    /\ \A q \in KeyedProvisions : FoundProvision(q)
    /\ KeyedProvisions = {} => ProvisionNotFound

\* an article is found under its exact key although the store holds another
\* article of the same agreement
C16_Witness ==
  /\ Returned("get_provision")
  /\ req.args.article = <<"2">>
  /\ Cardinality({ q \in db.provisions : q.agreement_id = req.args.agreement_id }) = 2
  /\ outcome.value.found
  /\ outcome.value.provision.article_ref = <<"2">>
  /\ outcome.value.provision.agreement_title = "Treaty of Asuncion"

\* ------------------------------------------------------------------------
\* Properties of get_trade_bloc_rules
\* ------------------------------------------------------------------------

\* the static bloc table of the contract
ValidBlocIds == {"mercosur", "pacific_alliance", "prosur"}

\* C17 as stated: for every input string whose lowercase form is not one of
\* the three bloc ids, get_trade_bloc_rules returns found: false with a
\* message starting 'Unknown trade bloc' and echoes the input unchanged,
\* without raising an error; for the three valid ids in any letter case it
\* returns found: true with id, name, full_name, members and associates taken
\* from the static bloc table.
C17_UnknownBlocNotFound ==
  (req.tool = "get_trade_bloc_rules" /\ Has(req.args, "bloc")) =>
    LET key == Str(toLowerCase(req.args.bloc))
    IN  /\ outcome.kind = "return"
        /\ key \notin ValidBlocIds =>
             /\ outcome.value.found = FALSE
             /\ outcome.value.bloc = req.args.bloc
             /\ outcome.value.message =
                  "Unknown trade bloc \"" \o Str(req.args.bloc)
                    \o "\". Valid values: mercosur, pacific_alliance, prosur."
        /\ key \in ValidBlocIds =>
             /\ outcome.value.found = TRUE
             /\ outcome.value.bloc.id = key
             /\ outcome.value.bloc.name = BLOCS[key].name
             /\ outcome.value.bloc.full_name = BLOCS[key].full_name
             /\ Len(outcome.value.bloc.members) = Len(BLOCS[key].members)
             /\ \A k \in 1..Len(BLOCS[key].members) :
                  outcome.value.bloc.members[k].code = BLOCS[key].members[k]
             /\ \A k \in 1..Len(BLOCS[key].associates) :
                  outcome.value.bloc.associates[k].code = BLOCS[key].associates[k]

\* ------------------------------------------------------------------------
\* Properties of the servers
\* ------------------------------------------------------------------------

\* callTool was called with the name of no tool
UnknownCall == req.tool \in UnknownNames

\* a tools/call request is in progress in one of the servers
ProtocolCall == req.tool = "tools/call"

\* what handleToolCall may do for the request in progress: the call began
\* today or, when midnight fell within it, the day before
Handled ==
  UNION { { r \in handleToolCall(db, d, req.params.name, ArgumentsOf(req.params)) :
              ClockAfter(r, d) = today } :
          d \in { e \in {today - 1, today} : e >= 1 } }

\* the handler has answered with an error result
ErrorResult ==
  /\ ProtocolCall
  /\ "isError" \in DOMAIN outcome
  /\ outcome.isError = TRUE

\* C18: callTool with a name that is not one of the nine tools throws the
\* error 'Unknown tool: <name>'; when such a call, or a tool call whose
\* function throws, arrives through the tools/call handler of a server, the
\* exception is caught and returned as a result with isError: true and the
\* text 'Error: ' followed by the message; the store is as it was and the
\* server takes the next call, which is answered as handleToolCall answers it.
C18_ErrorsAreResults ==
  /\ [](UnknownCall =>
          /\ outcome.kind = "throw"
          /\ outcome.error = "Error"
          /\ outcome.message = "Unknown tool: " \o req.tool)
  /\ [](ProtocolCall =>
          /\ outcome.kind = "result"
          /\ \E r \in Handled :
               IF r.outcome.kind = "throw"
               THEN /\ ErrorResult
                    /\ outcome.content =
                         <<[type |-> "text", text |-> "Error: " \o r.outcome.message]>>
               ELSE /\ "isError" \notin DOMAIN outcome
                    /\ outcome.content = <<[type |-> "text", json |-> r.outcome.value]>>
          /\ req.params.name \notin DispatchedNames =>
               /\ ErrorResult
               /\ outcome.content[1].text = "Error: Unknown tool: " \o req.params.name)
  /\ [][ErrorResult => (db' = db /\ Idle')]_vars

\* a call without its required arguments has come back from the HTTP
\* handler as an error result
C18_Witness ==
  /\ ErrorResult
  /\ req.server = "http"
  /\ req.params.name = "get_mutual_recognition"
  /\ "arguments" \notin DOMAIN req.params
  /\ outcome.content[1].text
       = "Error: Cannot read properties of undefined (reading 'toUpperCase')"

\* the names of a catalogue
Names(catalogue) == { catalogue[k].name : k \in 1..Len(catalogue) }

\* a catalogue holds 9 definitions with distinct non-empty names
NineTools(catalogue) ==
  /\ Len(catalogue) = 9
  /\ Cardinality(Names(catalogue)) = 9
  /\ "" \notin Names(catalogue)

\* C19: the tool catalogue is consistent: getTools returns exactly 9
\* definitions with distinct non-empty names, the tools list reported by
\* about contains exactly those 9 names, and callTool dispatches every one of
\* them (none raises 'Unknown tool'), in both the stdio server and the HTTP
\* handler.
C19_CatalogueConsistent ==
  /\ req.tool = "getTools" => NineTools(outcome.value)
  /\ (req.tool = "tools/list" /\ req.server = "http") =>
       (NineTools(outcome.tools) /\ Names(outcome.tools) = Names(TOOLS))
  /\ (req.tool = "tools/list" /\ req.server = "stdio") => outcome.tools = TOOLS
  /\ (req.tool = "about" /\ outcome.kind = "return") =>
       /\ Len(outcome.value.tools) = 9
       /\ Range(outcome.value.tools) = Names(TOOLS)
  /\ (ProtocolCall /\ req.params.name = "about" /\ ~ErrorResult) =>
       Range(outcome.content[1].json.tools) = Names(TOOLS)
  /\ (req.tool \in Names(TOOLS) /\ outcome.kind = "throw") =>
       outcome.message # "Unknown tool: " \o req.tool
  /\ (ProtocolCall /\ req.params.name \in Names(TOOLS) /\ ErrorResult) =>
       outcome.content[1].text # "Error: Unknown tool: " \o req.params.name
  /\ Names(TOOLS) = DispatchedNames

\* about, reached through the HTTP handler, lists the nine names of the
\* catalogue
C19_Witness ==
  /\ ProtocolCall
  /\ req.server = "http"
  /\ req.params.name = "about"
  /\ ~ErrorResult
  /\ Len(outcome.content[1].json.tools) = 9
  /\ Range(outcome.content[1].json.tools) = Names(HTTP_TOOLS)

\* ------------------------------------------------------------------------
\* Frame
\* ------------------------------------------------------------------------

\* the answers the request may get from the store on the day
Answers(store, day, request) ==
  IF request.tool = "tools/call"
  THEN { ToolResult(r.outcome) :
           r \in handleToolCall(store, day, request.params.name,
                                ArgumentsOf(request.params)) }
  ELSE { r.outcome : r \in handleToolCall(store, day, request.tool, request.args) }

\* the value a tool returns without the date of its metadata block
WithoutMetaDate(value) ==
  IF "_meta" \in DOMAIN value THEN [value EXCEPT !._meta.data_age = ""]
  ELSE IF "_metadata" \in DOMAIN value THEN [value EXCEPT !._metadata.data_age = ""]
  ELSE value

\* the value without anything that is computed from the clock: the date of
\* the metadata block and, in the report of check_data_freshness, checked_at,
\* the age and staleness of each source, the count of stale sources and the
\* age of each bloc
WithoutClock(value) ==
  LET v == WithoutMetaDate(value)
  IN  IF "checked_at" \notin DOMAIN v THEN v
      ELSE LET sources == v.sources
               blocs   == v.blocs
           IN  [v EXCEPT
                  !.checked_at = "",
                  !.stale_count = 0,
                  !.sources = [k \in DOMAIN sources |->
                                 [sources[k] EXCEPT !.age_days = <<>>, !.is_stale = FALSE]],
                  !.blocs = [k \in DOMAIN blocs |->
                               [blocs[k] EXCEPT !.age_days = <<>>]]]

\* the outcome of a call, direct or through a server, with the value it
\* carries (if it carries one) replaced by what is left of it
DatelessOutcome(o) ==
  IF o.kind = "return" THEN [o EXCEPT !.value = WithoutMetaDate(@)]
  ELSE IF o.kind = "result" /\ "json" \in DOMAIN o.content[1]
  THEN [o EXCEPT !.content[1].json = WithoutMetaDate(@)]
  ELSE o

ClocklessOutcome(o) ==
  IF o.kind = "return" THEN [o EXCEPT !.value = WithoutClock(@)]
  ELSE IF o.kind = "result" /\ "json" \in DOMAIN o.content[1]
  THEN [o EXCEPT !.content[1].json = WithoutClock(@)]
  ELSE o

SwapCase(c) == IF toUpperCaseChar(c) = c THEN toLowerCaseChar(c) ELSE toUpperCaseChar(c)

\* the spellings of s that differ from s in the case of letters only
CaseVariants(s) ==
  { [i \in 1..Len(s) |-> IF i \in P THEN SwapCase(s[i]) ELSE s[i]] :
      P \in SUBSET (1..Len(s)) }

\* the responses get_mutual_recognition may give for the input
RecognitionResponses(input) ==
  { getMutualRecognition(db, today, input, rows).outcome :
      rows \in MutualRecognitionRows(db, input) }

\* the responses check_digital_trade_obligations may give for the input
ObligationResponses(input) ==
  { checkDigitalTradeObligations(db, today, input, rows).outcome :
      rows \in ObligationRows(db, input) }

\* C23: for get_data_transfer_rules, get_mutual_recognition and
\* check_digital_trade_obligations, changing the letter case of any input
\* country code does not change the response: the lookup uses the uppercased
\* code and the response echoes the uppercased code, never the caller's
\* original spelling.
C23_CaseOfCodesIgnored ==
  /\ TransferCall =>
       /\ outcome.value.source_country = toUpperCase(req.args.source_country)
       /\ outcome.value.dest_country = toUpperCase(req.args.dest_country)
       /\ \A s \in CaseVariants(req.args.source_country),
             d \in CaseVariants(req.args.dest_country) :
            getDataTransferRules(db, today,
              [req.args EXCEPT !.source_country = s, !.dest_country = d]).outcome
              = outcome
  /\ RecognitionCall =>
       /\ outcome.value.country_a = toUpperCase(req.args.country_a)
       /\ outcome.value.country_b = toUpperCase(req.args.country_b)
       /\ LET responses == RecognitionResponses(req.args)
          IN  /\ outcome \in responses
              /\ \A a \in CaseVariants(req.args.country_a),
                    b \in CaseVariants(req.args.country_b) :
                   RecognitionResponses(
                     [req.args EXCEPT !.country_a = a, !.country_b = b]) = responses
  /\ ScanCall =>
       /\ \A k \in 1..Len(req.args.countries) :
            outcome.value.countries[k].code = toUpperCase(req.args.countries[k])
       /\ LET responses == ObligationResponses(req.args)
          IN  /\ outcome \in responses
              /\ \A k \in 1..Len(req.args.countries) :
                   \A c \in CaseVariants(req.args.countries[k]) :
                     ObligationResponses(
                       [req.args EXCEPT !.countries[k] = c]) = responses

\* a rule stored as (AR, EU) is found for the codes spelled 'ar' and 'eU', and
\* the response echoes 'AR' and 'EU'
C23_Witness ==
  /\ TransferCall
  /\ req.args.source_country = <<"a","r">>
  /\ req.args.dest_country = <<"e","U">>
  /\ outcome.value.found
  /\ outcome.value.source_country = <<"A","R">>
  /\ outcome.value.dest_country = <<"E","U">>

\* ------------------------------------------------------------------------
\* More properties of get_mutual_recognition
\* ------------------------------------------------------------------------

\* C24: the agreements list returned by get_mutual_recognition is ordered by
\* domain ascending: for any two consecutive rows, the earlier row's domain
\* is lexically less than or equal to the later row's domain.
C24_OrderedByDomain ==
  RecognitionCall =>
    LET rows == AgreementsOf(outcome.value)
    IN  \A k \in 1..(Len(rows) - 1) :
          \/ rows[k].domain = rows[k + 1].domain
          \/ TextLess(rows[k].domain, rows[k + 1].domain)

\* the row stored last comes first: its domain 'Cu' sorts before 'cu'
C24_Witness ==
  /\ RecognitionCall
  /\ Len(AgreementsOf(outcome.value)) = 2
  /\ AgreementsOf(outcome.value)[1].id = 5
  /\ AgreementsOf(outcome.value)[1].domain = <<"C","u">>
  /\ AgreementsOf(outcome.value)[2].id = 1
  /\ AgreementsOf(outcome.value)[2].domain = <<"c","u">>

\* ------------------------------------------------------------------------
\* The shape of the responses of the three country tools
\* ------------------------------------------------------------------------

\* found is true exactly when the payload field is present and non-empty, and
\* then no message is present; found is false exactly when a message is
\* present and the payload and count are absent; count, where present, is the
\* length of the payload list
WellShaped(v, payload, isList) ==
  /\ v.found \in BOOLEAN
  /\ v.found <=> (payload \in DOMAIN v /\ (isList => Len(v[payload]) > 0))
  /\ v.found => "message" \notin DOMAIN v
  /\ ~v.found <=> ("message" \in DOMAIN v /\ payload \notin DOMAIN v
                                          /\ "count" \notin DOMAIN v)
  /\ "count" \in DOMAIN v => (isList /\ v.count = Len(v[payload]))

\* C25: in every response of get_data_transfer_rules, get_mutual_recognition
\* and check_digital_trade_obligations, found is true exactly when the
\* payload field (rules, agreements or obligations) is present and
\* non-empty, in which case no message field is present; found is false
\* exactly when a message field is present and the payload and count fields
\* are absent; and wherever count is present it equals the length of the
\* payload list.
C25_FoundMatchesPayload ==
  /\ Returned("get_data_transfer_rules") => WellShaped(outcome.value, "rules", FALSE)
  /\ Returned("get_mutual_recognition") => WellShaped(outcome.value, "agreements", TRUE)
  /\ Returned("check_digital_trade_obligations") =>
       WellShaped(outcome.value, "obligations", TRUE)

\* a list of codes that no stored row matches: found is false, a message is
\* given, and the response has neither obligations nor count
C25_Witness ==
  /\ ScanCall
  /\ ObligationRows(db, req.args) = { <<>> }
  /\ ~outcome.value.found
  /\ DOMAIN outcome.value = {"found", "countries", "message", "_meta"}

\* ------------------------------------------------------------------------
\* Properties of the HTTP deployment
\* ------------------------------------------------------------------------

\* the invocations that hold a handle given by getDatabase
WithHandle == { i \in 1..MaxInvocations : http.inv[i].database # 0 }

\* C21: in the HTTP deployment, for any number and interleaving of handler
\* invocations within one process, the store is opened at most once: once
\* getDatabase has set the module-level handle it is never reassigned or
\* closed, and every tool call of every later request uses that same handle.
C21_OneHandlePerProcess ==
  /\ [](http.opened <= 1)
  /\ [](\A i \in WithHandle : http.inv[i].database = http.db)
  /\ [][http.db # 0 => (http'.db = http.db /\ http'.opened = http.opened)]_vars

\* two invocations are in flight at once, the second had its tool call
\* answered before the first, and both hold the handle the first one opened
C21_Witness ==
  /\ http.loaded
  /\ http.opened = 1
  /\ http.inv[1].pc = "handle"
  /\ http.inv[1].transport = "pending"
  /\ http.inv[2].transport = "replied"
  /\ http.inv[2].body.method = "tools/call"
  /\ http.inv[1].database = 1
  /\ http.inv[2].database = 1

\* the invocations of the handler that have returned
HandlerReturned == { i \in 1..MaxInvocations : http.loaded /\ http.inv[i].pc = "done" }

\* the response of the paths that end before the try block, or in its first
\* statement: 204 for OPTIONS, 200 with the server info for GET, 500 naming
\* the missing file when neither database file exists, with no handle opened
EarlyResponse(i) ==
  LET v == http.inv[i]
  IN  /\ v.method = "OPTIONS" => v.responses[1].status = 204
      /\ v.method = "GET" =>
           v.responses[1] =
             [status |-> 200,
              body |-> [name |-> "mercosur-trade-mcp", version |-> "0.1.0",
                        protocol |-> "mcp-streamable-http"]]
      /\ (v.method \notin {"OPTIONS", "GET"} /\ ~http.source /\ ~http.tmp) =>
           /\ v.responses[1] =
                [status |-> 500,
                 body |-> [error |-> "Database not found at " \o SOURCE_DB]]
           /\ v.database = 0
           /\ http.opened = 0

\* the invocation went past the check of the database files
PastFileCheck(i) ==
  /\ http.inv[i].method \notin {"OPTIONS", "GET"}
  /\ http.source \/ http.tmp

\* the messages of the exceptions the try block can catch
CaughtMessages ==
  { "ENOENT: no such file or directory, copyfile '" \o SOURCE_DB \o "' -> '"
      \o TMP_DB \o "'",
    "disk I/O error", "transport error" }

\* C30 as stated: every invocation of the HTTP MCP handler sends exactly one
\* response on every path: 204 for OPTIONS, 200 with server info for GET, 500
\* with an error body when neither the source nor the temporary database file
\* exists (without opening a handle), otherwise the transport's reply; when an
\* exception occurs after response headers were already sent, no second
\* response is written.
C30_Original ==
  /\ \A i \in 1..MaxInvocations : http.loaded => Len(http.inv[i].responses) <= 1
  /\ \A i \in HandlerReturned :
       /\ Len(http.inv[i].responses) = 1
       /\ EarlyResponse(i)
       /\ PastFileCheck(i) => http.inv[i].responses[1] \in TransportReplies(http.inv[i])

\* C30, amended: every invocation of the HTTP MCP handler sends at most one
\* response, and the handler itself sends exactly one on each path it
\* answers: 204 for OPTIONS, 200 with server info for GET, 500 with an error
\* body when neither database file exists (without opening a handle), and 500
\* with the exception's message when opening the database, connecting the
\* server or handling the request throws before response headers were sent.
\* On the remaining path the only response is the transport's reply, which
\* the transport may write before or after the handler returns; when an
\* exception occurs after response headers were already sent, no second
\* response is written.
C30_AtMostOneResponse ==
  /\ \A i \in 1..MaxInvocations :
       http.loaded =>
         /\ Len(http.inv[i].responses) <= 1
         /\ http.inv[i].headersSent = (Len(http.inv[i].responses) = 1)
         /\ http.inv[i].transport = "replied" =>
              http.inv[i].responses[1] \in TransportReplies(http.inv[i])
  /\ \A i \in HandlerReturned :
       /\ ~PastFileCheck(i) => Len(http.inv[i].responses) = 1
       /\ EarlyResponse(i)
       /\ PastFileCheck(i) =>
            \/ /\ http.inv[i].transport = "replied"
               /\ Len(http.inv[i].responses) = 1
            \/ /\ http.inv[i].transport = "pending"
               /\ http.inv[i].responses = <<>>
            \/ /\ http.inv[i].transport \in {"none", "failed"}
               /\ \E m \in CaughtMessages :
                    http.inv[i].responses =
                      << [status |-> 500, body |-> [error |-> m]] >>

\* one invocation has returned before the transport has written its reply to
\* a tool call, and another with the 500 of the catch block
C30_Witness ==
  /\ http.loaded
  /\ \E i, j \in HandlerReturned :
       /\ http.inv[i].method = "POST"
       /\ http.inv[i].body.method = "tools/call"
       /\ http.inv[i].transport = "pending"
       /\ http.inv[i].responses = <<>>
       /\ http.inv[j].responses =
            << [status |-> 500, body |-> [error |-> "transport error"]] >>

\* ------------------------------------------------------------------------
\* Properties of the stdio server process
\* ------------------------------------------------------------------------

\* C22 as stated: the open store handle is released on shutdown: whenever the
\* stdio server process handles SIGINT or SIGTERM after createServer has
\* opened the database, the handle is closed before the process exits, and no
\* tool call is served on a closed handle.
C22_HandleClosedOnShutdown ==
  /\ (proc.state = "exited" /\ proc.code = "0") =>
       \A k \in DOMAIN proc.handles : proc.handles[k] = "closed"
  /\ (req.tool = "tools/call" /\ req.server = "stdio") =>
       proc.handles[req.instance] = "open"

\* ------------------------------------------------------------------------
\* Properties of the build script
\* ------------------------------------------------------------------------

\* C26: in the store produced by the build script, data_transfer_rules holds
\* at most one row per unordered pair of codes (no pair is stored in both
\* orders, no ordered pair twice), and mutual_recognition holds at most one
\* row per (unordered pair, domain).
C26_SeedPairsUnique ==
  build.running =>
    /\ \A r, t \in db.data_transfer_rules :
         {r.source_country, r.dest_country} = {t.source_country, t.dest_country}
           => r = t
    /\ \A r, t \in db.mutual_recognition :
         ({r.country_a, r.country_b} = {t.country_a, t.country_b}
            /\ r.domain = t.domain) => r = t

\* the script has run to its end: all 15 rules and all 22 entries are stored
C26_Witness ==
  /\ build.running
  /\ build.phase = "done"
  /\ Cardinality(db.data_transfer_rules) = Len(transferRules)
  /\ Cardinality(db.mutual_recognition) = Len(mutualRecEntries)
  /\ Len(transferRules) = 15
  /\ Len(mutualRecEntries) = 22

\* ------------------------------------------------------------------------
\* Properties of the query string handed to MATCH
\* ------------------------------------------------------------------------

\* the characters escapeFTS5Query encloses in double quotes
Special == {"(", ")", "^", "*", ":"}

\* text with every quoted special character put back as the bare character
RECURSIVE Unquoted(_)
Unquoted(text) ==
  IF text = <<>> THEN <<>>
  ELSE IF Len(text) >= 3 /\ text[1] = "\"" /\ text[2] \in Special /\ text[3] = "\""
       THEN <<text[2]>> \o Unquoted(SubSeq(text, 4, Len(text)))
       ELSE <<Head(text)>> \o Unquoted(Tail(text))

\* C28 as stated: for every query string, the string that search_agreements
\* passes to the full-text MATCH operator has every occurrence of the
\* characters ( ) ^ * : enclosed in a balanced pair of double quotes and all
\* other characters unchanged, so that no character of the input is
\* interpreted as a full-text query operator: the query reads as a sequence
\* of strings and words only.
C28_NoQueryOperators ==
  (req.tool = "escapeFTS5Query" /\ outcome.kind = "return") =>
    LET passed == outcome.value
    IN  /\ \A i \in 1..Len(passed) :
             passed[i] \in Special =>
               (i > 1 /\ i < Len(passed)
                  /\ passed[i - 1] = "\"" /\ passed[i + 1] = "\"")
        /\ Unquoted(passed) = req.args.query
        /\ \A k \in 1..Len(Fts5Lex(passed)) : Fts5Lex(passed)[k].type = "STRING"

\* ------------------------------------------------------------------------
\* Properties of check_data_freshness
\* ------------------------------------------------------------------------

FreshnessReturned ==
  /\ req.tool = "check_data_freshness"
  /\ outcome.kind = "return"

\* the calendar dates, as days of the year 2026
DayOfYear ==
  [d \in {"2026-01-15", "2026-07-30", "2026-10-28", "2026-10-29"} |->
     CASE d = "2026-01-15" -> 15
       [] d = "2026-07-30" -> 211
       [] d = "2026-10-28" -> 301
       [] d = "2026-10-29" -> 302]

\* the age the contract gives a last_fetched value on the day of the call
ContractAge(last_fetched) ==
  IF last_fetched = NULL \/ last_fetched[1] \notin DOMAIN DayOfYear THEN <<>>
  ELSE LET elapsed == DayOfYear[outcome.value.checked_at] - DayOfYear[last_fetched[1]]
       IN  << IF elapsed > 0 THEN elapsed ELSE 0 >>

\* C29: in check_data_freshness, for every source age_days is null when
\* last_fetched is missing or unparseable and otherwise a non-negative whole
\* number of days (a date in the future gives 0); is_stale is true exactly
\* when age_days is not null and greater than 90; stale_count equals the
\* number of sources with is_stale true and never exceeds total_sources, which
\* equals the number of source entries returned.
C29_FreshnessArithmetic ==
  FreshnessReturned =>
    LET v == outcome.value
    IN  /\ \A k \in 1..Len(v.sources) :
             LET e == v.sources[k]
             IN  /\ \E s \in db.sources : s.id = e.source_id /\ s.last_fetched = e.last_fetched
                 /\ e.age_days = ContractAge(e.last_fetched)
                 /\ e.age_days # <<>> => e.age_days[1] \in Nat
                 /\ e.is_stale = (e.age_days # <<>> /\ e.age_days[1] > 90)
        /\ v.stale_count = Cardinality({ k \in 1..Len(v.sources) : v.sources[k].is_stale })
        /\ v.stale_count <= v.total_sources
        /\ v.total_sources = Len(v.sources)
        /\ v.total_sources = Cardinality(db.sources)

\* a call on the day when one source is 91 days old (stale), while another
\* was never fetched, another holds a text that is no date and another was
\* fetched on the day of the call
C29_Witness ==
  /\ FreshnessReturned
  /\ outcome.value.stale_count = 1
  /\ outcome.value.total_sources = 4
  /\ \E k \in 1..4 : outcome.value.sources[k].age_days = <<91>>
                       /\ outcome.value.sources[k].is_stale
  /\ \E k \in 1..4 : outcome.value.sources[k].last_fetched = NULL
                       /\ outcome.value.sources[k].age_days = <<>>
  /\ \E k \in 1..4 : outcome.value.sources[k].last_fetched = <<"unknown">>
                       /\ outcome.value.sources[k].age_days = <<>>
                       /\ ~outcome.value.sources[k].is_stale
  /\ \E k \in 1..4 : outcome.value.sources[k].age_days = <<0>>

====
